---- MODULE Spec2Model ----
(***************************************************************************)
(* Model of the opencodemem worker's ingestion pipeline: the durable       *)
(* pending-message queue (PendingMessageStore), the poll loop that drains  *)
(* it (SessionQueueProcessor), the ingest handler (processIngestEvent) and *)
(* the session service / store with the summary generator it calls.        *)
(*                                                                         *)
(* The embedded store runs with PRAGMA foreign_keys = ON, so every insert  *)
(* into observations, user_prompts and summaries needs its sessions row.   *)
(* Every store call is synchronous, so one HTTP handler and one            *)
(* processMessage call are each one atomic step; the poll loop takes its   *)
(* batch in one step and handles it one message per step.                  *)
(*                                                                         *)
(* Time is kept relative to Date.now(): a row's retry_in is                *)
(* next_retry_at_epoch - now (NULL when the column is NULL, 0 once the     *)
(* time has passed), and Tick lets RetryDelayMs elapse.  Rows are created  *)
(* in id order, so ORDER BY created_at_epoch is the order of the ids.  A   *)
(* session's completed_at is "NULL" or the stamp of the completing call.   *)
(***************************************************************************)
EXTENDS Integers, Sequences, FiniteSets, TLC

VARIABLES
    cfgMaxRetries,    \* SessionQueueProcessor.config.maxRetries
    pending,          \* rows of pending_messages
    nextPendingId,    \* AUTOINCREMENT counter of pending_messages
    processedEvents,  \* rows of processed_events
    deadLetters,      \* rows of dead_letters
    sessions,         \* rows of sessions, keyed by session_id
    observations,     \* rows of observations
    userPrompts,      \* rows of user_prompts
    summaries,        \* session_id of every summaries row
    isProcessing,     \* SessionQueueProcessor.isProcessing
    batch,            \* the messages of the running processQueue call still to handle
    processedCount,   \* SessionQueueProcessor.processedCount
    failedCount,      \* SessionQueueProcessor.failedCount
    failures,         \* history: per message id, its failed processing attempts
    delivered,        \* history: per message id removed without a failure, how it ended
    marked,           \* history: the keys markEventProcessed was called with
    firstInsert,      \* history: per (queue, dedupKey), the id of the first row inserted
    effects,          \* history: per dedupKey, how often the handler's effect was applied
    sanitized,        \* the privacy filter call under study: input, flags, output, passes
    saved,            \* the text fields of the row the observation handler wrote last
    vectorService,    \* VectorService: initialized, queue, the item in flight, processing
    vectors,          \* observation_id of every vectors row
    restarts,         \* how often the worker process was started again
    embedLog,         \* history: per observation, the attempts that failed in this process
    deadLetteredAt,   \* history: observation and attempt of every embedding dead letter
    chromaSync,       \* ChromaSync: initialized, isSyncing
    inFlight,         \* the sync bodies that are between two awaits
    syncRuns,         \* rows of sync_runs
    syncCursor,       \* sync_state chroma.cursor.<scope>, 0 when the row is absent
    syncHashes,       \* observation ids with a sync_state chroma.hash.observation row
    chroma,           \* the external collection: record id -> record
    replay,           \* the replayFailed call that is between two awaits
    syncRejected,     \* history: a sync call was turned away since the last one that ran
    lastDelete,       \* history: the last deleteByProject call and how it went
    upserted,         \* history: observation ids the external store accepted a record of
    syncDeadLettered, \* history: observation ids a chroma_sync dead letter was written for
    replayOutcome,    \* history: per dead letter replayFailed deleted, what the upsert did
    sseBroadcaster,   \* SSEBroadcaster: clients, projectClients, sessionClients
    clientCount,      \* how many /api/stream connections were opened
    received,         \* history: per client, the messages its send was given and took
    sendFailed,       \* history: the clients whose send threw
    lastBroadcast,    \* history: the last direct broadcast call and whom it sent to
    orchestrator,     \* SearchOrchestrator: filters, lastDiagnostics
    searches,         \* per /api/search request: its options, where it is, its results
    merged,           \* the mergeResults call under study: its two lists and its output
    ranked,           \* the scoreWithSemantic call under study: its input and its output
    memories,         \* rows of memories
    memClock,         \* datetime('now') in seconds, for the created_at of memories
    injected,         \* the /api/context/inject call under study: its rows and its lines
    purged,           \* history: the last confirmed /api/cleanup/purge and what it left
    schemaMigrations, \* rows of schema_migrations: the names applied
    database,         \* DatabaseManager.db and how far its start has come
    starts,           \* how many times a process opened the store
    pollInterval,     \* SessionQueueProcessor.pollInterval is set
    syncInterval,     \* ChromaSync.syncInterval is set
    workerDown,       \* history: shutdownWorker has run
    gracefulShutdown, \* GracefulShutdown: hooks, phase, isShuttingDown, the hook running
    exited,           \* the code process.exit was called with, "no" before
    signals           \* how many signals the process was sent

vars == <<cfgMaxRetries, pending, nextPendingId, processedEvents, deadLetters,
          sessions, observations, userPrompts, summaries, isProcessing, batch,
          processedCount, failedCount, failures, delivered, marked, firstInsert, effects,
          sanitized, saved, vectorService, vectors, restarts, embedLog, deadLetteredAt,
          chromaSync, inFlight, syncRuns, syncCursor, syncHashes, chroma, replay,
          syncRejected, lastDelete, upserted, syncDeadLettered, replayOutcome,
          sseBroadcaster, clientCount, received, sendFailed, lastBroadcast,
          orchestrator, searches, merged, ranked, memories, memClock, injected,
          purged, schemaMigrations, database, starts,
          pollInterval, syncInterval, workerDown, gracefulShutdown, exited, signals>>

privacyVars == <<sanitized, saved>>
embedVars == <<vectorService, vectors, restarts, embedLog, deadLetteredAt>>
syncVars == <<chromaSync, inFlight, syncRuns, syncCursor, syncHashes, chroma, replay,
              syncRejected, lastDelete, upserted, syncDeadLettered, replayOutcome>>
sseVars == <<sseBroadcaster, clientCount, received, sendFailed, lastBroadcast>>
searchVars == <<orchestrator, searches, merged, ranked>>
contextVars == <<memories, memClock, injected>>
purgeVars == <<purged>>
startVars == <<schemaMigrations, database, starts>>
lifeVars == <<pollInterval, syncInterval, workerDown, gracefulShutdown, exited, signals>>
adminVars == <<purgeVars, startVars, lifeVars>>
apiVars == <<searchVars, contextVars, adminVars>>

----
\* Bounds of the model.
MaxMessages == 2
MaxClients == 2
MaxBroadcasts == 2
MaxSearches == 2
MaxListLen == 3
MaxMemories == 3
MaxPurges == 1
MaxStarts == 3

\* Program constants.
DefaultMaxRetries == 3
RetryDelayMs == 5000
BatchSize == 10
DUPLICATE == 0 - 1

Sessions == {"s1"}
Handlers == {"session_start", "session_end", "observation", "user_prompt"}
EventTypes == Handlers \cup {"custom"}
Texts == {"note", ""}
TextsOf(eventType) == IF eventType \in {"observation", "user_prompt"} THEN Texts ELSE {""}
ClientKeys == {<<"k1">>}
NoKey == <<>>
NULL == 0 - 1
StatusCheck == {"active", "completed", "failed"}
RequestStatuses == StatusCheck \cup {"paused"}
NoSession == [present |-> FALSE, status |-> "active", completed_at |-> "NULL"]
NoItem == [observationId |-> 0, attempt |-> 0, phase |-> "idle"]
Project == "p1"
Scopes == {"__all__", Project}
AllProjects == "__all__"
NoReplay == [rows |-> <<>>, attempt |-> 0, replayed |-> 0, failed |-> 0, active |-> FALSE]
NoDelete == [project |-> "", outcome |-> "none"]
EmbeddingEnabledDefault == FALSE
NoProject == ""
NoSessionId == ""
ClientIds == 1..MaxClients
NoClients == [clients |-> {},
              projectClients |-> [project \in {Project, "p2"} |-> {}],
              sessionClients |-> [sessionId \in {"s1", "s2"} |-> {}]]
NoBroadcast == [n |-> 0, project |-> NoProject, sessionId |-> NoSessionId]
NoType == ""
NoOrchestrator == [filters |-> <<>>, lastDiagnostics |-> 0]
NoSearch == [phase |-> "idle", project |-> NoProject, type |-> NoType, ftsOk |-> FALSE,
             results |-> <<>>, semanticOk |-> FALSE, response |-> <<>>]
NoCall == [called |-> FALSE]
NoPurge == [n |-> 0, project |-> NoProject, ok |-> FALSE, left |-> {}]
Closed == [phase |-> "closed", migrations |-> <<>>, missing |-> FALSE, appliedNow |-> {}]
NoShutdown == [hooks |-> <<>>, phase |-> "init", isShuttingDown |-> FALSE, running |-> 0,
               ran |-> <<>>]

----
\* Helpers over rows.
MaxOf(S) == CHOOSE x \in S : \A y \in S : y <= x

RECURSIVE SortById(_)
SortById(rows) ==
    IF rows = {} THEN <<>>
    ELSE LET first == CHOOSE r \in rows : \A o \in rows : r.id <= o.id
         IN <<first>> \o SortById(rows \ {first})

Take(s, n) == IF Len(s) <= n THEN s ELSE SubSeq(s, 1, n)

Bump(f, k) == IF k \in DOMAIN f THEN [f EXCEPT ![k] = @ + 1] ELSE f @@ (k :> 1)

----
Init ==
    /\ cfgMaxRetries \in 1..DefaultMaxRetries
    /\ pending = {}
    /\ nextPendingId = 1
    /\ processedEvents = {}
    /\ deadLetters = {}
    /\ sessions = [s \in Sessions |-> NoSession]
    /\ observations = {}
    /\ userPrompts = {}
    /\ summaries = {}
    /\ isProcessing = FALSE
    /\ batch = <<>>
    /\ processedCount = 0
    /\ failedCount = 0
    /\ failures = <<>>
    /\ delivered = <<>>
    /\ marked = {}
    /\ firstInsert = <<>>
    /\ effects = <<>>
    /\ sanitized = [passes |-> 0]
    /\ saved = [present |-> FALSE]
    /\ vectorService = [initialized |-> EmbeddingEnabledDefault, queue |-> <<>>,
                        current |-> NoItem, processing |-> FALSE]
    /\ vectors = {}
    /\ restarts = 0
    /\ embedLog = <<>>
    /\ deadLetteredAt = {}
    /\ chromaSync = [initialized |-> FALSE, isSyncing |-> FALSE]
    /\ inFlight = {}
    /\ syncRuns = {}
    /\ syncCursor = [scope \in Scopes |-> 0]
    /\ syncHashes = {}
    /\ chroma = {}
    /\ replay = NoReplay
    /\ syncRejected = FALSE
    /\ lastDelete = NoDelete
    /\ upserted = {}
    /\ syncDeadLettered = {}
    /\ replayOutcome = {}
    /\ sseBroadcaster = NoClients
    /\ clientCount = 0
    /\ received = [id \in ClientIds |-> <<>>]
    /\ sendFailed = {}
    /\ lastBroadcast = NoBroadcast
    /\ orchestrator = NoOrchestrator
    /\ searches = [r \in 1..MaxSearches |-> NoSearch]
    /\ merged = NoCall
    /\ ranked = NoCall
    /\ memories = {}
    /\ memClock = 0
    /\ injected = NoCall
    /\ purged = NoPurge
    /\ schemaMigrations = {}
    /\ database = Closed
    /\ starts = 0
    /\ pollInterval = FALSE
    /\ syncInterval = FALSE
    /\ workerDown = FALSE
    /\ gracefulShutdown = NoShutdown
    /\ exited = "no"
    /\ signals = 0

\* the configuration as shipped: max_retries 3
InitLive == Init /\ cfgMaxRetries = DefaultMaxRetries

----
\* PendingMessageStore (queries are evaluated on the current rows).

\* enqueue without its processed_events lookup
AlreadyProcessed_Never(dedupKey) == FALSE

\* enqueue: SELECT 1 FROM processed_events WHERE event_key = ?
AlreadyProcessed(dedupKey) == \E e \in processedEvents : e.event_key = dedupKey

\* enqueue without its pending duplicate lookup
PendingDuplicate_None(queueName, dedupKey) == {}

\* enqueue: SELECT id FROM pending_messages WHERE queue_name = ? AND payload.dedupKey = ?
PendingDuplicate(queueName, dedupKey) ==
    {m \in pending : m.queue_name = queueName /\ m.payload.dedupKey = dedupKey}

\* isEventProcessed that never finds the key
IsEventProcessed_Never(eventKey) == FALSE

\* isEventProcessed: SELECT 1 FROM processed_events WHERE event_key = ?
IsEventProcessed(eventKey) == \E e \in processedEvents : e.event_key = eventKey

\* getReadyMessages without its next_retry_at_epoch <= now
Ready_FreshOnly(m) ==
    /\ m.retry_in = NULL
    /\ m.retry_count < m.max_retries

\* getReadyMessages: the WHERE clause
Ready(m) ==
    /\ (m.retry_in = NULL \/ m.retry_in <= 0)
    /\ m.retry_count < m.max_retries

GetReadyMessages(limit) == Take(SortById({m \in pending : Ready(m)}), limit)

\* incrementRetry with > for >=
RetriesExhausted_OffByOne(newRetryCount, maxRetries) == newRetryCount > maxRetries

\* incrementRetry: the test that ends the retries
RetriesExhausted(newRetryCount, maxRetries) == newRetryCount >= maxRetries

\* markProcessed: DELETE FROM pending_messages WHERE id = ?
MarkProcessed(id) == {m \in pending : m.id # id}

\* markEventProcessed: INSERT OR IGNORE, event_key is UNIQUE
MarkEventProcessed(eventKey, queueName, entityId) ==
    IF \E e \in processedEvents : e.event_key = eventKey
    THEN processedEvents
    ELSE processedEvents \cup {[event_key |-> eventKey, queue_name |-> queueName,
                                entity_id |-> entityId]}

----
\* PendingMessageStore.enqueue: does the call reach the INSERT
EnqueueInserts(queueName, dedupKey) ==
    dedupKey # NoKey => (~AlreadyProcessed(dedupKey) /\ PendingDuplicate(queueName, dedupKey) = {})

\* enqueue answering DUPLICATE for a pending duplicate too
EnqueueReturns_PendingAsDuplicate(queueName, dedupKey) ==
    IF dedupKey # NoKey /\ (AlreadyProcessed(dedupKey) \/ PendingDuplicate(queueName, dedupKey) # {})
    THEN {DUPLICATE}
    ELSE {nextPendingId}

\* PendingMessageStore.enqueue: the values the call can return (LIMIT 1 picks any duplicate)
EnqueueReturns(queueName, dedupKey) ==
    IF dedupKey # NoKey /\ AlreadyProcessed(dedupKey) THEN {DUPLICATE}
    ELSE IF dedupKey # NoKey /\ PendingDuplicate(queueName, dedupKey) # {}
         THEN {m.id : m \in PendingDuplicate(queueName, dedupKey)}
         ELSE {nextPendingId}

\* POST /api/events/ingest: dedupKey || `${eventType}:${sessionId}:${JSON.stringify(data)}`
ComputedDedupKey(eventType, sessionId, text, dedupKey) ==
    IF dedupKey # NoKey THEN dedupKey ELSE <<eventType, sessionId, text>>

\* POST /api/events/ingest -> SessionQueueProcessor.enqueue -> PendingMessageStore.enqueue;
\* the response carries EnqueueReturns, a call that does not insert changes nothing
Ingest(eventType, sessionId, text, dedupKey) ==
    LET key == ComputedDedupKey(eventType, sessionId, text, dedupKey)
        payload == [type |-> eventType, sessionId |-> sessionId, text |-> text,
                    dedupKey |-> key]
        row == [id |-> nextPendingId, queue_name |-> eventType, entity_id |-> sessionId,
                payload |-> payload, retry_count |-> 0, max_retries |-> cfgMaxRetries,
                retry_in |-> NULL]
    IN
    /\ EnqueueInserts(eventType, key)
    /\ nextPendingId <= MaxMessages
    /\ pending' = pending \cup {row}
    /\ nextPendingId' = nextPendingId + 1
    /\ firstInsert' = IF <<eventType, key>> \in DOMAIN firstInsert
                      THEN firstInsert
                      ELSE firstInsert @@ (<<eventType, key>> :> row.id)

IngestRequest ==
    /\ \E eventType \in EventTypes, sessionId \in Sessions, dedupKey \in ClientKeys \cup {NoKey} :
          \E text \in TextsOf(eventType) : Ingest(eventType, sessionId, text, dedupKey)
    /\ UNCHANGED <<cfgMaxRetries, processedEvents, deadLetters, sessions, observations,
                   userPrompts, summaries, isProcessing, batch, processedCount, failedCount,
                   failures, delivered, marked, effects>>
    /\ UNCHANGED <<privacyVars, embedVars, syncVars, sseVars, apiVars>>

----
\* SessionStore, SummaryGenerator.

\* create: INSERT OR REPLACE INTO sessions (session_id, project, started_at, status)
SessionCreate(sessionId) ==
    [sessions EXCEPT ![sessionId] = [present |-> TRUE, status |-> "active",
                                     completed_at |-> "NULL"]]

\* complete: UPDATE sessions SET status = ?, completed_at = ? WHERE session_id = ?
\* (the CHECK on status is evaluated for the rows the UPDATE touches)
CompleteThrows(sessionId, status) == sessions[sessionId].present /\ status \notin StatusCheck

SessionComplete(sessionId, status) ==
    IF sessions[sessionId].present
    THEN [sessions EXCEPT ![sessionId].status = status, ![sessionId].completed_at = "now"]
    ELSE sessions

\* generateFromSession: nothing without observations, else update or create the summary
GenerateFromSession(sessionId) ==
    IF \E o \in observations : o.session_id = sessionId
    THEN summaries \cup {sessionId}
    ELSE summaries

----
\* SSEBroadcaster

\* removeClient that leaves the client registered
RemoveClient_Keep(sse, clientId) == sse

\* removeClient: out of its project's set, its session's set and the clients map
RemoveClient(sse, clientId) ==
    [clients |-> {c \in sse.clients : c.id # clientId},
     projectClients |-> [project \in DOMAIN sse.projectClients |->
                            IF \E c \in sse.clients : c.id = clientId /\ c.project = project
                            THEN sse.projectClients[project] \ {clientId}
                            ELSE sse.projectClients[project]],
     sessionClients |-> [sessionId \in DOMAIN sse.sessionClients |->
                            IF \E c \in sse.clients : c.id = clientId /\ c.sessionId = sessionId
                            THEN sse.sessionClients[sessionId] \ {clientId}
                            ELSE sse.sessionClients[sessionId]]]

\* closeAll clearing the registry only
CloseAll_RegistryOnly(sse) == [sse EXCEPT !.clients = {}]

\* closeAll: every client closed, the registry and both indices cleared
CloseAll(sse) ==
    [clients |-> {},
     projectClients |-> [project \in DOMAIN sse.projectClients |-> {}],
     sessionClients |-> [sessionId \in DOMAIN sse.sessionClients |-> {}]]

RECURSIVE RemoveClients(_, _)
RemoveClients(sse, clientIds) ==
    IF clientIds = {} THEN sse
    ELSE LET id == CHOOSE c \in clientIds : TRUE
         IN RemoveClients(RemoveClient(sse, id), clientIds \ {id})

\* broadcast's target set with the session subscribers left out
TargetIds_ProjectOnly(sse, project, sessionId) ==
    (IF project # NoProject THEN sse.projectClients[project] ELSE {})
    \cup (IF project = NoProject /\ sessionId = NoSessionId
          THEN {c.id : c \in sse.clients} ELSE {})

\* broadcast: the ids of the project's set, of the session's set, or of every client
TargetIds(sse, project, sessionId) ==
    (IF project # NoProject THEN sse.projectClients[project] ELSE {})
    \cup (IF sessionId # NoSessionId THEN sse.sessionClients[sessionId] ELSE {})
    \cup (IF project = NoProject /\ sessionId = NoSessionId
          THEN {c.id : c \in sse.clients} ELSE {})

\* broadcast's loop: the targets still in the clients map get send(data)
SentTo(sse, project, sessionId) ==
    {id \in TargetIds(sse, project, sessionId) : \E c \in sse.clients : c.id = id}

\* broadcast: every target's send is called; a send that throws removes its client
Broadcast(message, project, sessionId, failing) ==
    LET sent == SentTo(sseBroadcaster, project, sessionId)
        failed == sent \cap failing
    IN /\ received' = [id \in ClientIds |->
                          IF id \in sent \ failed THEN Append(received[id], message)
                          ELSE received[id]]
       /\ sendFailed' = sendFailed \cup failed
       /\ sseBroadcaster' = RemoveClients(sseBroadcaster, failed)

\* broadcastEvent, called by a handler or an endpoint; any client's send may throw
BroadcastEvent(type, seq, project, sessionId) ==
    /\ \E failing \in SUBSET {c.id : c \in sseBroadcaster.clients} :
          Broadcast([type |-> type, seq |-> seq], project, sessionId, failing)
    /\ UNCHANGED <<clientCount, lastBroadcast>>

\* the type of the live event each handler broadcasts
LiveEventType(eventType) ==
    IF eventType = "observation" THEN "observation_added" ELSE eventType

----
\* processIngestEvent

\* ContentValidator: text.trim().length = 0 is an error, sanitizeInputText then throws
TextValid(text) == text # ""

\* foreign_keys = ON: observations and user_prompts reference sessions(session_id)
ForeignKeyOk(sessionId) == sessions[sessionId].present

\* the handler made to wait for the embedding worker, failing while it is busy
HandlerThrows_EmbeddingInline(data) ==
    \/ /\ data.type \in {"observation", "user_prompt"}
       /\ (~TextValid(data.text) \/ ~ForeignKeyOk(data.sessionId))
    \/ data.type = "observation" /\ vectorService.processing

HandlerThrows(data) ==
    /\ data.type \in {"observation", "user_prompt"}
    /\ (~TextValid(data.text) \/ ~ForeignKeyOk(data.sessionId))

\* the prompt number query without its + 1
NextPromptNumber_NoIncrement(sessionId) ==
    LET numbers == {p.prompt_number : p \in {q \in userPrompts : q.session_id = sessionId}}
        next == IF numbers = {} THEN 0 ELSE MaxOf(numbers)
    IN IF next = 0 THEN 1 ELSE next

\* SELECT COALESCE(MAX(prompt_number), 0) + 1 ... ; countResult?.next || 1
NextPromptNumber(sessionId) ==
    LET numbers == {p.prompt_number : p \in {q \in userPrompts : q.session_id = sessionId}}
        next == (IF numbers = {} THEN 0 ELSE MaxOf(numbers)) + 1
    IN IF next = 0 THEN 1 ELSE next

NextRowId(rows) == IF rows = {} THEN 1 ELSE MaxOf({r.id : r \in rows}) + 1

\* the effect of a handler call that does not throw
HandlerEffect(data) ==
    /\ sessions' =
          CASE data.type = "session_start" -> SessionCreate(data.sessionId)
            [] data.type = "session_end" -> SessionComplete(data.sessionId, "completed")
            [] OTHER -> sessions
    /\ summaries' = IF data.type = "session_end"
                    THEN GenerateFromSession(data.sessionId)
                    ELSE summaries
    /\ observations' =
          IF data.type = "observation"
          THEN observations \cup {[id |-> NextRowId(observations),
                                   session_id |-> data.sessionId, text |-> data.text]}
          ELSE observations
    /\ userPrompts' =
          IF data.type = "user_prompt"
          THEN userPrompts \cup {[id |-> NextRowId(userPrompts),
                                  session_id |-> data.sessionId,
                                  prompt_number |-> NextPromptNumber(data.sessionId),
                                  prompt_text |-> data.text]}
          ELSE userPrompts

----
\* VectorService: the in-memory embedding queue.

\* processQueue up to its first await: nothing when a loop is running, the service is
\* off or the queue is empty; else the loop starts and shifts the head item
StartProcessQueue(vs) ==
    IF vs.processing \/ ~vs.initialized \/ vs.queue = <<>> THEN vs
    ELSE [vs EXCEPT !.processing = TRUE,
                    !.queue = Tail(@),
                    !.current = [observationId |-> Head(vs.queue).observationId,
                                 attempt |-> Head(vs.queue).attempt,
                                 phase |-> "embedding"]]

\* enqueueEmbedding: no-op when off or when the id is in the queue
EnqueueEmbedding(vs, observationId) ==
    IF ~vs.initialized THEN vs
    ELSE IF \E i \in 1..Len(vs.queue) : vs.queue[i].observationId = observationId THEN vs
    ELSE StartProcessQueue([vs EXCEPT !.queue = Append(@, [observationId |-> observationId,
                                                           attempt |-> 1])])

----
\* SessionQueueProcessor

\* processQueue with its guard taken out
AlreadyProcessing_Never(processing) == FALSE

\* processQueue: if (this.isProcessing) return
AlreadyProcessing(processing) == processing

\* processQueue up to its first await: take the batch. A call that finds the
\* guard set returns; a call that finds nothing ready clears the guard at once.
PollStart ==
    /\ ~AlreadyProcessing(isProcessing)
    /\ GetReadyMessages(BatchSize) # <<>>
    /\ isProcessing' = TRUE
    /\ batch' = [i \in 1..Len(GetReadyMessages(BatchSize)) |->
                    [id |-> GetReadyMessages(BatchSize)[i].id,
                     payload |-> GetReadyMessages(BatchSize)[i].payload]]
    /\ UNCHANGED <<cfgMaxRetries, pending, nextPendingId, processedEvents, deadLetters,
                   sessions, observations, userPrompts, summaries, processedCount,
                   failedCount, failures, delivered, marked, firstInsert, effects>>
    /\ UNCHANGED <<privacyVars, embedVars, syncVars, sseVars, apiVars>>

\* processMessage: no handler registered for data.type
DropMessage(msg) ==
    /\ msg.payload.type \notin Handlers
    /\ pending' = MarkProcessed(msg.id)
    /\ delivered' = delivered @@ (msg.id :> "dropped")
    /\ UNCHANGED <<processedEvents, deadLetters, sessions, observations, userPrompts,
                   summaries, processedCount, failedCount, failures, marked, effects>>
    /\ UNCHANGED <<embedVars, sseVars>>

\* processMessage: the event's dedupKey is already in processed_events
SkipMessage(msg) ==
    /\ msg.payload.type \in Handlers
    /\ msg.payload.dedupKey # NoKey
    /\ IsEventProcessed(msg.payload.dedupKey)
    /\ pending' = MarkProcessed(msg.id)
    /\ delivered' = delivered @@ (msg.id :> "skipped")
    /\ UNCHANGED <<processedEvents, deadLetters, sessions, observations, userPrompts,
                   summaries, processedCount, failedCount, failures, marked, effects>>
    /\ UNCHANGED <<embedVars, sseVars>>

\* processMessage: the handler returns
HandleMessage(msg) ==
    /\ msg.payload.type \in Handlers
    /\ ~(msg.payload.dedupKey # NoKey /\ IsEventProcessed(msg.payload.dedupKey))
    /\ ~HandlerThrows(msg.payload)
    /\ HandlerEffect(msg.payload)
    /\ processedEvents' =
          IF msg.payload.dedupKey # NoKey
          THEN MarkEventProcessed(msg.payload.dedupKey, msg.payload.type,
                                  msg.payload.sessionId)
          ELSE processedEvents
    /\ pending' = MarkProcessed(msg.id)
    /\ processedCount' = processedCount + 1
    /\ delivered' = delivered @@ (msg.id :> "handled")
    /\ marked' = IF msg.payload.dedupKey # NoKey
                 THEN marked \cup {msg.payload.dedupKey} ELSE marked
    /\ effects' = Bump(effects, msg.payload.dedupKey)
    /\ UNCHANGED <<deadLetters, failedCount, failures>>
    /\ vectorService' = IF msg.payload.type = "observation"
                        THEN EnqueueEmbedding(vectorService, NextRowId(observations))
                        ELSE vectorService
    /\ UNCHANGED <<vectors, restarts, embedLog, deadLetteredAt>>
    /\ BroadcastEvent(LiveEventType(msg.payload.type), msg.id, Project,
                      msg.payload.sessionId)

\* processMessage: the handler throws; incrementRetry, then the dead letter
FailMessage(msg) ==
    /\ msg.payload.type \in Handlers
    /\ ~(msg.payload.dedupKey # NoKey /\ IsEventProcessed(msg.payload.dedupKey))
    /\ HandlerThrows(msg.payload)
    /\ failedCount' = failedCount + 1
    /\ failures' = Bump(failures, msg.id)
    /\ LET found == {m \in pending : m.id = msg.id}
           shouldRetry == \E m \in found : ~RetriesExhausted(m.retry_count + 1, m.max_retries)
           updated == {IF m.id # msg.id THEN m
                       ELSE [m EXCEPT !.retry_count = @ + 1,
                                      !.retry_in =
                                          IF RetriesExhausted(m.retry_count + 1, m.max_retries)
                                          THEN NULL ELSE RetryDelayMs] : m \in pending}
       IN IF shouldRetry
          THEN /\ pending' = updated
               /\ UNCHANGED deadLetters
          ELSE /\ pending' = {m \in updated : m.id # msg.id}
               /\ deadLetters' = deadLetters \cup
                     {[id |-> NextRowId(deadLetters), queue_name |-> "session_ingest",
                       entity_id |-> msg.id, payload |-> msg.payload,
                       reason |-> "max_retries_exceeded"]}
    /\ UNCHANGED <<processedEvents, sessions, observations, userPrompts, summaries,
                   processedCount, delivered, marked, effects>>
    /\ UNCHANGED <<embedVars, sseVars>>

\* one iteration of processQueue's loop; the finally block follows the last one
ProcessNext ==
    /\ isProcessing
    /\ batch # <<>>
    /\ \/ DropMessage(Head(batch))
       \/ SkipMessage(Head(batch))
       \/ HandleMessage(Head(batch))
       \/ FailMessage(Head(batch))
    /\ batch' = Tail(batch)
    /\ isProcessing' = (Tail(batch) # <<>>)
    /\ UNCHANGED <<cfgMaxRetries, nextPendingId, firstInsert>>
    /\ UNCHANGED <<privacyVars, syncVars, apiVars>>

----
\* POST /api/sessions/init
InitSession(sessionId) ==
    /\ sessions' = SessionCreate(sessionId)
    /\ UNCHANGED <<cfgMaxRetries, pending, nextPendingId, processedEvents, deadLetters,
                   observations, userPrompts, summaries, isProcessing, batch,
                   processedCount, failedCount, failures, delivered, marked, firstInsert, effects>>
    /\ BroadcastEvent("session_init", 0, Project, sessionId)
    /\ UNCHANGED <<privacyVars, embedVars, syncVars, apiVars>>

\* POST /api/sessions/complete; status is whatever the body carries
CompleteSession(sessionId, status) ==
    /\ ~CompleteThrows(sessionId, status)
    /\ sessions' = SessionComplete(sessionId, status)
    /\ summaries' = GenerateFromSession(sessionId)
    /\ UNCHANGED <<cfgMaxRetries, pending, nextPendingId, processedEvents, deadLetters,
                   observations, userPrompts, isProcessing, batch,
                   processedCount, failedCount, failures, delivered, marked, firstInsert, effects>>
    /\ BroadcastEvent("session_complete", 0, Project, sessionId)
    /\ UNCHANGED <<privacyVars, embedVars, syncVars, apiVars>>

\* RetryDelayMs elapse (only the rows waiting for a retry can tell)
Tick ==
    /\ \E m \in pending : m.retry_in > 0
    /\ pending' = {IF m.retry_in > 0
                   THEN [m EXCEPT !.retry_in = IF @ > RetryDelayMs THEN @ - RetryDelayMs ELSE 0]
                   ELSE m : m \in pending}
    /\ UNCHANGED <<cfgMaxRetries, nextPendingId, processedEvents, deadLetters,
                   sessions, observations, userPrompts, summaries, isProcessing, batch,
                   processedCount, failedCount, failures, delivered, marked, firstInsert, effects>>
    /\ UNCHANGED <<privacyVars, embedVars, syncVars, sseVars, apiVars>>

Next ==
    \/ IngestRequest
    \/ PollStart
    \/ ProcessNext
    \/ \E s \in Sessions : InitSession(s)
    \/ \E s \in Sessions, st \in RequestStatuses : CompleteSession(s, st)
    \/ Tick

Spec == Init /\ [][Next]_vars

\* the poll loop keeps running: setInterval goes on calling processQueue, the loop of a
\* batch goes on to its end, and time passes
SpecProgress ==
    Init /\ [][Next]_vars /\ WF_vars(PollStart) /\ WF_vars(ProcessNext) /\ WF_vars(Tick)

\* C32: while a batch is in progress no other batch is taken: the batch only loses its
\* head, one message at a time; a tick of the poll loop in between is skipped
C32_OneBatchAtATime ==
    [][isProcessing => (batch' = batch \/ batch' = Tail(batch))]_vars

\* a batch is in progress and a message outside it is ready: a tick would take it
C32_Witness ==
    /\ isProcessing
    /\ batch # <<>>
    /\ \E m \in pending : Ready(m) /\ \A i \in 1..Len(batch) : batch[i].id # m.id

----
\* Properties of the queue: retries, dead letters, deduplication.

PendingIds == {m.id : m \in pending}
EnqueuedIds == 1..(nextPendingId - 1)
FailCount(id) == IF id \in DOMAIN failures THEN failures[id] ELSE 0
DeadLettered(id) ==
    \E d \in deadLetters : /\ d.entity_id = id
                           /\ d.queue_name = "session_ingest"
                           /\ d.reason = "max_retries_exceeded"

\* C1: a message whose every delivery failed (N failures so far, max_retries = M) is
\* still in pending_messages exactly when N < M; once N >= M it is gone from
\* pending_messages and a session_ingest / max_retries_exceeded dead letter names it.
C1_PendingIffRetriesLeft ==
    \A id \in EnqueuedIds \ DOMAIN delivered :
        /\ (id \in PendingIds) <=> (FailCount(id) < cfgMaxRetries)
        /\ FailCount(id) >= cfgMaxRetries => (id \notin PendingIds /\ DeadLettered(id))

C1_Witness ==
    /\ cfgMaxRetries = DefaultMaxRetries
    /\ \E id \in EnqueuedIds : FailCount(id) = cfgMaxRetries /\ DeadLettered(id)
    /\ \E id \in PendingIds : FailCount(id) > 0 /\ FailCount(id) < cfgMaxRetries

HasHandler(id) == \E m \in pending : m.id = id /\ m.payload.type \in Handlers
Settled(id) ==
    /\ id \notin PendingIds
    /\ \/ DeadLettered(id)
       \/ id \in DOMAIN delivered /\ delivered[id] \in {"handled", "skipped"}

\* C33: while the poll loop keeps running, every pending message whose type has a
\* handler is eventually gone from pending_messages, processed or dead-lettered
C33_EveryMessageSettles ==
    \A id \in 1..MaxMessages : HasHandler(id) ~> Settled(id)

\* a message that failed, waited for its retry and was then handled
C33_Witness ==
    \E id \in EnqueuedIds :
        /\ FailCount(id) > 0
        /\ id \notin PendingIds
        /\ id \in DOMAIN delivered /\ delivered[id] = "handled"

\* C2 (as claimed): once an enqueue to q with key d has inserted a row, every later
\* enqueue to q with d made before d is marked processed returns that row's id and
\* inserts nothing.
C2_SameIdUntilMarkedProcessed ==
    \A qd \in DOMAIN firstInsert :
        (qd[2] # NoKey /\ qd[2] \notin marked) =>
            /\ EnqueueReturns(qd[1], qd[2]) = {firstInsert[qd]}
            /\ ~EnqueueInserts(qd[1], qd[2])

\* C2 (amended): while the row inserted for (q, d) is still in pending_messages and d
\* is not marked processed, every enqueue to q with d returns that row's id and
\* inserts nothing.
C2_SameIdWhilePending ==
    \A m \in pending :
        (m.payload.dedupKey # NoKey /\ m.payload.dedupKey \notin marked) =>
            /\ EnqueueReturns(m.queue_name, m.payload.dedupKey) = {m.id}
            /\ ~EnqueueInserts(m.queue_name, m.payload.dedupKey)

C2_Witness ==
    \E m \in pending :
        /\ m.payload.dedupKey \in ClientKeys
        /\ m.payload.dedupKey \notin marked
        /\ m.retry_count > 0
        /\ \E o \in pending : o.id # m.id /\ o.payload.dedupKey = m.payload.dedupKey

\* C3: once markEventProcessed has been called with key d, an enqueue carrying d, to
\* any queue, returns DUPLICATE (-1) and inserts no pending_messages row.
C3_DuplicateAfterMarked ==
    \A d \in marked : \A q \in EventTypes :
        /\ EnqueueReturns(q, d) = {DUPLICATE}
        /\ ~EnqueueInserts(q, d)

C3_Witness ==
    \E d \in marked : \E q \in Handlers : PendingDuplicate(q, d) # {}

\* C4: for every dedupKey the ingest handler's effect is applied at most once, however
\* often the event is enqueued, retried or delivered.
C4_EffectAtMostOncePerKey ==
    \A d \in DOMAIN effects : effects[d] <= 1

C4_Witness ==
    \E id \in DOMAIN delivered, other \in DOMAIN failures :
        /\ delivered[id] = "skipped"
        /\ other \in DOMAIN delivered
        /\ delivered[other] = "handled"
        /\ \E d \in DOMAIN effects : effects[d] = 1

\* C5: pending_messages never holds two rows with the same queue_name and dedupKey.
C5_OnePendingPerQueueAndKey ==
    \A m1 \in pending, m2 \in pending :
        (/\ m1.payload.dedupKey # NoKey
         /\ m1.queue_name = m2.queue_name
         /\ m1.payload.dedupKey = m2.payload.dedupKey) => m1.id = m2.id

C5_Witness ==
    \E m1 \in pending, m2 \in pending :
        /\ m1.payload.dedupKey = m2.payload.dedupKey
        /\ m1.queue_name # m2.queue_name
        /\ m1.retry_count > 0
        /\ m1.retry_in = 0

\* C35: an event submitted without a dedupKey is never taken for a duplicate: the
\* enqueue inserts a row of its own, also when the same event with the same data is
\* pending or was handled before, so each submission gets its handler effect
C35_KeylessSubmissionIsEnqueued ==
    \A eventType \in Handlers, sessionId \in Sessions :
        \A text \in TextsOf(eventType) :
            EnqueueReturns(eventType, ComputedDedupKey(eventType, sessionId, text, NoKey))
                = {nextPendingId}

----
\* Properties of sessions, summaries and prompts.

Terminal(s) == sessions[s].present /\ sessions[s].status \in {"completed", "failed"}

\* C6: completion is terminal: once a session is completed or failed, no later step
\* changes its status or its completed_at.
C6_CompletionIsTerminal ==
    [][\A s \in Sessions : Terminal(s) => sessions'[s] = sessions[s]]_vars

\* C7: a session whose status is active has completed_at = NULL.
C7_ActiveHasNoCompletedAt ==
    \A s \in Sessions :
        (sessions[s].present /\ sessions[s].status = "active") =>
            sessions[s].completed_at = "NULL"

\* C8: every summaries row references an existing session that is completed or failed.
C8_SummaryOfTerminalSession ==
    \A s \in summaries : Terminal(s)

\* C9: an observation or user_prompt event (valid text, not yet processed) that names a
\* session without a sessions row is handled successfully: its row is inserted and
\* the sessions row exists afterwards.
C9_SessionCreatedOnFirstReference ==
    [][(/\ isProcessing
        /\ batch # <<>>
        /\ batch' = Tail(batch)
        /\ Head(batch).payload.type \in {"observation", "user_prompt"}
        /\ TextValid(Head(batch).payload.text)
        /\ ~IsEventProcessed(Head(batch).payload.dedupKey)
        /\ ~sessions[Head(batch).payload.sessionId].present)
       => (/\ sessions'[Head(batch).payload.sessionId].present
           /\ (observations' # observations \/ userPrompts' # userPrompts))]_vars

EarlierPromptNumbers(p) ==
    {q.prompt_number : q \in {r \in userPrompts : r.session_id = p.session_id /\ r.id < p.id}}

\* C10: within a session each user prompt carries max(prompt_number) + 1 of the
\* prompts inserted before it, so the numbers strictly increase and no two prompts of
\* a session share one.
C10_PromptNumbersIncrease ==
    /\ \A p \in userPrompts :
          p.prompt_number = (IF EarlierPromptNumbers(p) = {} THEN 0
                             ELSE MaxOf(EarlierPromptNumbers(p))) + 1
    /\ \A p \in userPrompts, q \in userPrompts :
          (p.session_id = q.session_id /\ p.prompt_number = q.prompt_number) => p.id = q.id

C10_Witness ==
    \E p \in userPrompts, q \in userPrompts :
        /\ p.session_id = q.session_id
        /\ p.prompt_number = 1
        /\ q.prompt_number = 2
        /\ p.id < q.id

----
\* Privacy filter (services/privacy.ts and the worker's PrivacyCheckValidator).
\*
\* A text is a sequence of literal fragments; the text it stands for is their
\* concatenation. OPEN_HEAD followed by OPEN_TAIL reads "<private>". SK_KEY is
\* "sk-" with 20 letters and a closing ";", which no pattern matches across. No
\* fragment holds one of the words api_key, secret, password, token, Bearer, ghp_,
\* gho_, so the patterns with those words match nowhere in these texts.
\* ContentValidator's length cap (50000 characters) is out of reach of MaxTextLen.

MaxTextLen == 5

OPEN == "<private>"
OPEN_HEAD == "<pri"
OPEN_TAIL == "vate>"
CLOSE == "</private>"
WORD == "(ok)"
BLANK == " "
SK_KEY == "sk-AAAAAAAAAAAAAAAAAAAA;"
SSN == "123-45-6789"
REDACTED == "[REDACTED];"
SSN_REDACTED == "[SSN REDACTED]"

Fragments == {OPEN, OPEN_HEAD, OPEN_TAIL, CLOSE, WORD, BLANK, SK_KEY, SSN}
InputTexts == UNION {[1..n -> Fragments] : n \in 0..MaxTextLen}
Titles == {<<WORD>>, <<OPEN, WORD, CLOSE>>}

MinOf(S) == CHOOSE x \in S : \A y \in S : x <= y

\* PRIVATE_TAG_REGEX at position i: the number of fragments its "<private>" spans
OpenLen(s, i) ==
    IF s[i] = OPEN THEN 1
    ELSE IF s[i] = OPEN_HEAD /\ i < Len(s) /\ s[i + 1] = OPEN_TAIL THEN 2
    ELSE 0

ClosesAfter(s, i) == {j \in (i + OpenLen(s, i))..Len(s) : s[j] = CLOSE}

\* text.replace(PRIVATE_TAG_REGEX, ""): one left-to-right pass, each match running to
\* the nearest "</private>", the scan going on behind the match
RECURSIVE StripFrom(_, _)
StripFrom(s, i) ==
    IF i > Len(s) THEN <<>>
    ELSE IF OpenLen(s, i) > 0 /\ ClosesAfter(s, i) # {}
         THEN StripFrom(s, MinOf(ClosesAfter(s, i)) + 1)
         ELSE <<s[i]>> \o StripFrom(s, i + 1)

RECURSIVE TrimLeft(_)
TrimLeft(s) == IF s # <<>> /\ Head(s) = BLANK THEN TrimLeft(Tail(s)) ELSE s

RECURSIVE TrimRight(_)
TrimRight(s) ==
    IF s # <<>> /\ s[Len(s)] = BLANK THEN TrimRight(SubSeq(s, 1, Len(s) - 1)) ELSE s

Trim(s) == TrimRight(TrimLeft(s))

StripPrivateContent(text, privateTagsEnabled) ==
    IF ~privateTagsEnabled THEN text ELSE Trim(StripFrom(text, 1))

\* SECRET_PATTERNS: of the fragments only SK_KEY matches one, (sk-[a-zA-Z0-9]{20,})
RedactSecrets(text, redactionEnabled) ==
    IF ~redactionEnabled THEN text
    ELSE [i \in 1..Len(text) |-> IF text[i] = SK_KEY THEN REDACTED ELSE text[i]]

SanitizeForStorage(text, privateTagsEnabled, redactionEnabled) ==
    RedactSecrets(StripPrivateContent(text, privateTagsEnabled), redactionEnabled)

\* PrivacyCheckValidator.redact: of the fragments only SSN matches one of its four
\* patterns (the sk- pattern asks for 32 characters), and not behind a letter
Redact(text) ==
    [i \in 1..Len(text) |->
        IF text[i] = SSN /\ (i = 1 \/ text[i - 1] # OPEN_HEAD) THEN SSN_REDACTED ELSE text[i]]

\* ContentValidator.validate: text.trim().length = 0 is an error
ContentValid(text) == Trim(text) # <<>>

\* sanitizeInputText, for a text that validates: redacted.text || text
SanitizeInputText(text) == IF Redact(text) # <<>> THEN Redact(text) ELSE text

ApplyFilter(call, text) ==
    IF call.fn = "sanitizeForStorage"
    THEN SanitizeForStorage(text, call.privateTagsEnabled, call.redactionEnabled)
    ELSE SanitizeInputText(text)

\* one call of a filter on a fresh input
Sanitize(fn, text, privateTagsEnabled, redactionEnabled) ==
    /\ fn = "sanitizeInputText" => (ContentValid(text) /\ privateTagsEnabled /\ redactionEnabled)
    /\ LET call == [fn |-> fn, privateTagsEnabled |-> privateTagsEnabled,
                    redactionEnabled |-> redactionEnabled]
       IN sanitized' = [fn |-> fn, privateTagsEnabled |-> privateTagsEnabled,
                        redactionEnabled |-> redactionEnabled, input |-> text,
                        first |-> ApplyFilter(call, text),
                        output |-> ApplyFilter(call, text), passes |-> 1]
    /\ UNCHANGED saved

\* the same filter applied to its own output
SanitizeAgain ==
    /\ sanitized.passes = 1
    /\ sanitized.fn = "sanitizeInputText" => ContentValid(sanitized.output)
    /\ sanitized' = [sanitized EXCEPT !.output = ApplyFilter(sanitized, sanitized.output),
                                      !.passes = 2]
    /\ UNCHANGED saved

\* processIngestEvent, observation: the text goes through sanitizeInputText, the
\* title is written as it came
SaveObservation(text, title) ==
    /\ ContentValid(text)
    /\ saved' = [present |-> TRUE, text |-> SanitizeInputText(text), title |-> title]
    /\ UNCHANGED sanitized

ingestVars == <<cfgMaxRetries, pending, nextPendingId, processedEvents, deadLetters,
                sessions, observations, userPrompts, summaries, isProcessing, batch,
                processedCount, failedCount, failures, delivered, marked, firstInsert,
                effects>>

\* a filter call, or a write, on an input not seen before
Idle == sanitized.passes = 0 /\ ~saved.present

SanitizeRequest ==
    /\ Idle
    /\ \E fn \in {"sanitizeForStorage", "sanitizeInputText"}, text \in InputTexts,
          privateTagsEnabled \in BOOLEAN, redactionEnabled \in BOOLEAN :
          Sanitize(fn, text, privateTagsEnabled, redactionEnabled)
    /\ UNCHANGED <<ingestVars, embedVars, syncVars, sseVars, apiVars>>

SanitizeAgainRequest == SanitizeAgain /\ UNCHANGED <<ingestVars, embedVars, syncVars, sseVars, apiVars>>

SaveObservationRequest ==
    /\ Idle
    /\ \E text \in InputTexts, title \in Titles : SaveObservation(text, title)
    /\ UNCHANGED <<ingestVars, embedVars, syncVars, sseVars, apiVars>>

PrivacyNext ==
    \/ SanitizeRequest
    \/ SanitizeAgainRequest
    \/ SaveObservationRequest

SpecPrivacy == Init /\ [][PrivacyNext]_vars

HasPrivateRegion(s) == \E i \in 1..Len(s) : OpenLen(s, i) > 0 /\ ClosesAfter(s, i) # {}
HasSecret(s) == \E i \in 1..Len(s) : s[i] \in {SK_KEY, SSN}
PassedFilter(s) == ~HasPrivateRegion(s) /\ ~HasSecret(s)

\* C11: the text fields of a persisted observation hold no <private>...</private>
\* region and no unredacted match of a required secret pattern.
C11_PersistedTextPassedFilter ==
    saved.present => (PassedFilter(saved.text) /\ PassedFilter(saved.title))

\* C12: applying a privacy filter to its own output changes nothing.
C12_SanitizeIdempotent ==
    sanitized.passes = 2 => sanitized.output = sanitized.first

----
\* Embedding worker: VectorService.processQueue, the start-up backfill, and the
\* ingestion of observations next to it.

MaxRestarts == 2
MaxAttempts == 3
\* the worker passes 200 as the limit at start-up; the model uses a limit that the
\* observations of one run can outnumber
BackfillLimit == 1

Reverse(s) == [i \in 1..Len(s) |-> s[Len(s) + 1 - i]]

\* item.attempt < this.maxAttempts, with its bound off by one
EmbedRetriesLeft_OneMore(attempt) == attempt <= MaxAttempts

\* item.attempt < this.maxAttempts
EmbedRetriesLeft(attempt) == attempt < MaxAttempts

\* the top of the while loop: shift the next item or leave the loop (finally)
LoopNext(vs) ==
    IF vs.queue = <<>>
    THEN [vs EXCEPT !.current = NoItem, !.processing = FALSE]
    ELSE [vs EXCEPT !.queue = Tail(@),
                    !.current = [observationId |-> Head(vs.queue).observationId,
                                 attempt |-> Head(vs.queue).attempt,
                                 phase |-> "embedding"]]

EmbeddingDeadLetter(observationId) ==
    [id |-> NextRowId(deadLetters), queue_name |-> "embedding_queue",
     entity_id |-> observationId, payload |-> [observationId |-> observationId],
     reason |-> "embedding_failed_after_retries"]

\* embedObservation of the item just shifted throws at its first statement outside a
\* try (getDatabase, the SELECT of the observation): the exception leaves the while
\* loop, finally clears processing, the queue stays as it is
SelectThrows(vs) ==
    IF vs.current.phase = "embedding"
    THEN [vs EXCEPT !.current = NoItem, !.processing = FALSE]
    ELSE vs

\* the loop goes on; the store may fail the query for the next item
LoopOn(vs, throws) == IF throws THEN SelectThrows(LoopNext(vs)) ELSE LoopNext(vs)

\* embedObservation returns: true when the vector exists, the row is gone, or the
\* provider answered and the vector was stored; false when the provider failed
EmbedStep(providerOk, throws) ==
    /\ vectorService.current.phase = "embedding"
    /\ LET item == vectorService.current
           existing == item.observationId \in vectors
           obs == {o \in observations : o.id = item.observationId}
           ok == existing \/ obs = {} \/ providerOk
       IN IF ok
          THEN /\ vectors' = IF obs # {} THEN vectors \cup {item.observationId} ELSE vectors
               /\ vectorService' = LoopOn(vectorService, throws)
               /\ UNCHANGED <<deadLetters, embedLog, deadLetteredAt>>
          ELSE /\ embedLog' = IF item.observationId \in DOMAIN embedLog
                              THEN [embedLog EXCEPT ![item.observationId] =
                                        Append(@, item.attempt)]
                              ELSE embedLog @@ (item.observationId :> <<item.attempt>>)
               /\ UNCHANGED vectors
               /\ IF EmbedRetriesLeft(item.attempt)
                  THEN /\ vectorService' = [vectorService EXCEPT !.current.phase = "sleeping"]
                       /\ UNCHANGED <<deadLetters, deadLetteredAt>>
                  ELSE /\ deadLetters' =
                             deadLetters \cup {EmbeddingDeadLetter(item.observationId)}
                       /\ deadLetteredAt' = deadLetteredAt \cup
                             {[observationId |-> item.observationId,
                               attempt |-> item.attempt]}
                       /\ vectorService' = LoopOn(vectorService, throws)
    /\ UNCHANGED <<cfgMaxRetries, pending, nextPendingId, processedEvents, sessions,
                   observations, userPrompts, summaries, isProcessing, batch,
                   processedCount, failedCount, failures, delivered, marked, firstInsert,
                   effects, restarts, privacyVars, syncVars, sseVars, apiVars>>

EmbedDone(providerOk) == EmbedStep(providerOk, FALSE)

\* the sleep after a failed attempt ends: push the item with attempt + 1, loop on
EmbedWakeStep(throws) ==
    /\ vectorService.current.phase = "sleeping"
    /\ vectorService' =
          LoopOn([vectorService EXCEPT
                       !.queue = Append(@, [observationId |-> vectorService.current.observationId,
                                            attempt |-> vectorService.current.attempt + 1])],
                 throws)
    /\ UNCHANGED <<ingestVars, vectors, restarts, embedLog, deadLetteredAt, privacyVars,
                   syncVars, sseVars, apiVars>>

EmbedWake == EmbedWakeStep(FALSE)

RECURSIVE EnqueueAll(_, _)
EnqueueAll(vs, ids) ==
    IF ids = <<>> THEN vs ELSE EnqueueAll(EnqueueEmbedding(vs, Head(ids)), Tail(ids))

\* backfillMissingEmbeddings: the newest `limit` observations without a vectors row
\* (rows are created in id order)
MissingEmbeddings(limit) ==
    Take(Reverse([i \in 1..Len(SortById({o \in observations : o.id \notin vectors})) |->
                     SortById({o \in observations : o.id \notin vectors})[i].id]), limit)

BackfillMissingEmbeddings(vs, limit) ==
    IF ~vs.initialized THEN vs ELSE EnqueueAll(vs, MissingEmbeddings(limit))

\* the worker process ends and starts again: the tables stay, every in-memory field
\* is new, initialize reads config.embedding.enabled, then the backfill runs, then
\* chromaSync.initialize finds its collection or not
WorkerRestart(enabled, chromaReady) ==
    /\ restarts < MaxRestarts
    /\ restarts' = restarts + 1
    /\ vectorService' =
          BackfillMissingEmbeddings([initialized |-> enabled, queue |-> <<>>,
                                     current |-> NoItem, processing |-> FALSE],
                                    BackfillLimit)
    /\ embedLog' = <<>>
    /\ isProcessing' = FALSE
    /\ batch' = <<>>
    /\ processedCount' = 0
    /\ failedCount' = 0
    /\ UNCHANGED <<cfgMaxRetries, pending, nextPendingId, processedEvents, deadLetters,
                   sessions, observations, userPrompts, summaries, failures, delivered,
                   marked, firstInsert, effects, vectors, deadLetteredAt, privacyVars>>
    /\ chromaSync' = [initialized |-> chromaReady, isSyncing |-> FALSE]
    /\ inFlight' = {}
    /\ replay' = NoReplay
    /\ sseBroadcaster' = NoClients
    /\ UNCHANGED <<syncRuns, syncCursor, syncHashes, chroma, syncRejected, lastDelete,
                   upserted, syncDeadLettered, replayOutcome, clientCount, received,
                   sendFailed, lastBroadcast, merged, ranked, contextVars,
                   adminVars>>
    /\ orchestrator' = NoOrchestrator
    /\ searches' = [r \in 1..MaxSearches |->
                       IF searches[r].phase = "semantic" THEN NoSearch ELSE searches[r]]

\* POST /api/events/ingest with an observation that carries a text
ObservationRequest ==
    /\ \E sessionId \in Sessions, dedupKey \in ClientKeys \cup {NoKey} :
          Ingest("observation", sessionId, "note", dedupKey)
    /\ UNCHANGED <<cfgMaxRetries, processedEvents, deadLetters, sessions, observations,
                   userPrompts, summaries, isProcessing, batch, processedCount, failedCount,
                   failures, delivered, marked, effects, privacyVars, embedVars, syncVars,
                   sseVars, apiVars>>

EmbedNext ==
    \/ ObservationRequest
    \/ \E s \in Sessions : InitSession(s)
    \/ PollStart
    \/ ProcessNext
    \/ \E providerOk \in BOOLEAN : EmbedDone(providerOk)
    \/ EmbedWake
    \/ \E enabled \in BOOLEAN : WorkerRestart(enabled, FALSE)
    \/ Tick

SpecEmbed == Init /\ [][EmbedNext]_vars

\* the work items for one observation: in the FIFO, being embedded, or asleep before
\* the retry
Outstanding(observationId) ==
    Cardinality({i \in 1..Len(vectorService.queue) :
                    vectorService.queue[i].observationId = observationId})
    + (IF /\ vectorService.current.phase # "idle"
          /\ vectorService.current.observationId = observationId THEN 1 ELSE 0)

\* batchEmbedObservations: enqueueEmbedding for each id, whatever the worker is doing
BatchEmbedObservations(observationIds) ==
    /\ vectorService.initialized
    /\ observationIds # <<>>
    /\ vectorService' = EnqueueAll(vectorService, observationIds)
    /\ UNCHANGED <<ingestVars, vectors, restarts, embedLog, deadLetteredAt, privacyVars,
                   syncVars, sseVars, apiVars>>

\* the calls are followed up to the first observation with two work items and up to
\* the first failed attempt, which keeps the log of attempts finite
EmbedApiNext ==
    \/ EmbedNext
    \/ /\ \A o \in observations : Outstanding(o.id) <= 1
       /\ embedLog = <<>>
       /\ \E o \in observations : BatchEmbedObservations(<<o.id>>)

SpecEmbedApi == InitLive /\ [][EmbedApiNext]_vars

\* the worker with a store that can fail a query
EmbedFaultNext ==
    \/ EmbedNext
    \/ \E providerOk \in BOOLEAN : EmbedStep(providerOk, TRUE)
    \/ EmbedWakeStep(TRUE)

SpecEmbedFault == InitLive /\ [][EmbedFaultNext]_vars

\* C36: no observation id has more than one work item outstanding, counting the FIFO,
\* the item being embedded and the item asleep before its retry, whenever
\* enqueueEmbedding is called
C36_OneWorkItemPerObservation ==
    \A o \in observations : Outstanding(o.id) <= 1

\* C37: an initialized worker whose processor is idle has an empty FIFO, whatever
\* became of the item before: stored, failed, or an exception
C37_IdleMeansEmptyQueue ==
    (vectorService.initialized /\ ~vectorService.processing) => vectorService.queue = <<>>

EmbeddingDeadLettered(observationId) ==
    \E d \in deadLetters : /\ d.queue_name = "embedding_queue"
                           /\ d.entity_id = observationId
                           /\ d.reason = "embedding_failed_after_retries"

WorkerIdle ==
    /\ vectorService.initialized
    /\ vectorService.queue = <<>>
    /\ ~vectorService.processing

\* C13: with embedding on, once the worker has nothing left to do every observation
\* has its vectors row or an embedding dead letter.
C13_EveryObservationEmbedded ==
    WorkerIdle => \A o \in observations : o.id \in vectors \/ EmbeddingDeadLettered(o.id)

AttemptsUpTo(k) == [i \in 1..k |-> i]

C15_IngestionNeverWaitsForEmbedding ==
    [][(/\ isProcessing
        /\ batch # <<>>
        /\ batch' = Tail(batch)
        /\ restarts' = restarts
        /\ Head(batch).payload.type = "observation"
        /\ TextValid(Head(batch).payload.text)
        /\ ~IsEventProcessed(Head(batch).payload.dedupKey)
        /\ ForeignKeyOk(Head(batch).payload.sessionId))
       => (/\ Cardinality(observations') = Cardinality(observations) + 1
           /\ Head(batch).id \notin {m.id : m \in pending'}
           /\ failedCount' = failedCount)]_vars

C15_Witness ==
    /\ Cardinality(observations) = MaxMessages
    /\ pending = {}
    /\ vectors = {}
    /\ vectorService.processing
    /\ vectorService.current.phase = "sleeping"
    /\ vectorService.queue # <<>>
    /\ \E o \in observations : EmbeddingDeadLettered(o.id)

----
\* ChromaSync: replication of observations to the external vector store

MaxSyncRuns == 2
SyncBatchSize == 100
UpsertMaxAttempts == 3
ReplayLimit == 50
ObservationTitle == "Observation"

\* the observations of the model all arrive with the same event.project
ProjectOf(obs) == Project

\* sync with the isSyncing guard taken out
SyncGuard_Off(isSyncing) == FALSE

\* sync's first statement: a call made while a sync is in flight returns at once
SyncGuard(isSyncing) == isSyncing

\* the record sync builds for an observation
SyncedRecord(obs) ==
    [id |-> obs.id,
     document |-> <<ObservationTitle, obs.text>>,
     project |-> ProjectOf(obs),
     metadata |-> {"title", "type", "project", "created_at_epoch", "version",
                   "content_hash"}]

\* the record recordSyncFailure writes into the dead letter: the text alone as the
\* document, the project the sync was called with as the only metadata
FailureRecord(scope, observationId, text) ==
    [id |-> observationId,
     document |-> <<text>>,
     project |-> IF scope = AllProjects THEN "undefined" ELSE scope,
     metadata |-> {"project"}]

\* recordSyncFailure with nothing written
RecordSyncFailure_Nothing(scope, obs) == {}

\* recordSyncFailure: the dead_letters rows it inserts
RecordSyncFailure(scope, obs) ==
    {[id |-> NextRowId(deadLetters), queue_name |-> "chroma_sync",
      entity_id |-> obs.id,
      payload |-> [project |-> scope, record |-> FailureRecord(scope, obs.id, obs.text)],
      reason |-> "upsert_failed"]}

\* upsertWithRetry gives up when the failed attempts reach maxAttempts
UpsertAttemptsLeft(attempt) == attempt < UpsertMaxAttempts

\* upsertToChroma: returns without a request when the replicator is not initialized,
\* otherwise the request is answered ok or not
UpsertToChroma(ok) ==
    IF ~chromaSync.initialized THEN "skipped" ELSE IF ok THEN "stored" ELSE "error"

\* the external collection after an upsert of the record
Upsert(collection, record) == {r \in collection : r.id # record.id} \cup {record}

\* the rows sync reads: text not empty, id above the cursor when the cursor is
\* positive, of the project when one is given, in id order, at most batchSize
SyncBatch(scope, cursor) ==
    Take(SortById({o \in observations :
                      /\ o.text # ""
                      /\ (cursor > 0 => o.id > cursor)
                      /\ (scope # AllProjects => ProjectOf(o) = scope)}),
         SyncBatchSize)

SyncRunRow(runId, scope, status, synced, failed) ==
    [id |-> runId, project |-> scope, status |-> status,
     synced_count |-> synced, failed_count |-> failed]

\* the end of the sync body: setSyncCursor(maxSeenId), finishSyncRun, isSyncing false
FinishSync(run) ==
    /\ syncCursor' = [syncCursor EXCEPT ![run.scope] = run.maxSeenId]
    /\ syncRuns' = {r \in syncRuns : r.id # run.runId} \cup
                      {SyncRunRow(run.runId, run.scope, "success", run.synced, run.failed)}
    /\ chromaSync' = [chromaSync EXCEPT !.isSyncing = FALSE]
    /\ inFlight' = {r \in inFlight : r.runId # run.runId}

\* the loop of sync goes on to the next row of the batch, or ends the body
ContinueSync(run, after) ==
    IF after.batch = <<>>
    THEN FinishSync(after)
    ELSE /\ inFlight' = {r \in inFlight : r.runId # run.runId} \cup
                           {[after EXCEPT !.maxSeenId =
                                IF Head(after.batch).id > @ THEN Head(after.batch).id
                                ELSE @]}
         /\ UNCHANGED <<syncCursor, syncRuns, chromaSync>>

\* sync(project), up to its first await
SyncCall(scope) ==
    /\ UNCHANGED <<ingestVars, embedVars, privacyVars, sseVars, apiVars, replay, lastDelete,
                   replayOutcome, chroma, syncHashes, upserted, syncDeadLettered>>
    /\ IF SyncGuard(chromaSync.isSyncing)
       THEN /\ syncRejected' = TRUE
            /\ UNCHANGED <<chromaSync, inFlight, syncRuns, syncCursor>>
       ELSE IF ~chromaSync.initialized
       THEN UNCHANGED <<syncRejected, chromaSync, inFlight, syncRuns, syncCursor>>
       ELSE /\ Cardinality(syncRuns) < MaxSyncRuns
            /\ syncRejected' = FALSE
            /\ LET runId == NextRowId(syncRuns)
                   cursor == syncCursor[scope]
                   rows == SyncBatch(scope, cursor)
               IN IF rows = <<>>
                  THEN /\ syncCursor' = [syncCursor EXCEPT ![scope] = cursor]
                       /\ syncRuns' = syncRuns \cup
                                         {SyncRunRow(runId, scope, "success", 0, 0)}
                       /\ UNCHANGED <<chromaSync, inFlight>>
                  ELSE /\ chromaSync' = [chromaSync EXCEPT !.isSyncing = TRUE]
                       /\ syncRuns' = syncRuns \cup
                                         {SyncRunRow(runId, scope, "running", 0, 0)}
                       /\ inFlight' = inFlight \cup
                             {[runId |-> runId, scope |-> scope, batch |-> rows,
                               maxSeenId |-> IF Head(rows).id > cursor THEN Head(rows).id
                                             ELSE cursor,
                               synced |-> 0, failed |-> 0, attempt |-> 0]}
                       /\ UNCHANGED syncCursor

\* one answer of the external store to the upsert of the row the sync body is at
UpsertAttempt(ok) ==
    /\ inFlight # {}
    /\ \E run \in inFlight :
          LET obs == Head(run.batch)
              outcome == UpsertToChroma(ok)
              attempt == run.attempt + 1
          IN /\ IF outcome # "error"
                THEN /\ chroma' = IF outcome = "stored"
                                  THEN Upsert(chroma, SyncedRecord(obs)) ELSE chroma
                     /\ upserted' = IF outcome = "stored"
                                    THEN upserted \cup {obs.id} ELSE upserted
                     /\ syncHashes' = syncHashes \cup {obs.id}
                     /\ ContinueSync(run, [run EXCEPT !.batch = Tail(@), !.attempt = 0,
                                                      !.synced = @ + 1])
                     /\ UNCHANGED <<deadLetters, syncDeadLettered>>
                ELSE IF UpsertAttemptsLeft(attempt)
                THEN /\ inFlight' = {r \in inFlight : r.runId # run.runId} \cup
                                       {[run EXCEPT !.attempt = attempt]}
                     /\ UNCHANGED <<chroma, upserted, syncHashes, deadLetters,
                                    syncDeadLettered, syncCursor, syncRuns, chromaSync>>
                ELSE /\ deadLetters' = deadLetters \cup RecordSyncFailure(run.scope, obs)
                     /\ syncDeadLettered' = syncDeadLettered \cup
                           {d.entity_id : d \in RecordSyncFailure(run.scope, obs)}
                     /\ ContinueSync(run, [run EXCEPT !.batch = Tail(@), !.attempt = 0,
                                                      !.failed = @ + 1])
                     /\ UNCHANGED <<chroma, upserted, syncHashes>>
    /\ UNCHANGED <<cfgMaxRetries, pending, nextPendingId, processedEvents, sessions,
                   observations, userPrompts, summaries, isProcessing, batch,
                   processedCount, failedCount, failures, delivered, marked, firstInsert,
                   effects, embedVars, privacyVars, sseVars, apiVars, replay, syncRejected,
                   lastDelete, replayOutcome>>

\* replayFailed(limit), up to its first await: the oldest chroma_sync dead letters
ReplayStart ==
    /\ ~replay.active
    /\ \E d \in deadLetters : d.queue_name = "chroma_sync"
    /\ replay' = [rows |-> Take(SortById({d \in deadLetters :
                                             d.queue_name = "chroma_sync"}), ReplayLimit),
                  attempt |-> 0, replayed |-> 0, failed |-> 0, active |-> TRUE]
    /\ UNCHANGED <<ingestVars, embedVars, privacyVars, sseVars, apiVars, chromaSync, inFlight,
                   syncRuns, syncCursor, syncHashes, chroma, syncRejected, lastDelete,
                   upserted, syncDeadLettered, replayOutcome>>

\* one answer of the external store to the upsert of the dead letter replayFailed is at
ReplayAttempt(ok) ==
    /\ replay.active
    /\ LET row == Head(replay.rows)
           outcome == UpsertToChroma(ok)
           attempt == replay.attempt + 1
           rest == Tail(replay.rows)
       IN IF outcome # "error"
          THEN /\ chroma' = IF outcome = "stored"
                            THEN Upsert(chroma, row.payload.record) ELSE chroma
               /\ upserted' = IF outcome = "stored"
                              THEN upserted \cup {row.entity_id} ELSE upserted
               /\ deadLetters' = {d \in deadLetters : d.id # row.id}
               /\ replayOutcome' = replayOutcome \cup
                     {[entity_id |-> row.entity_id, outcome |-> outcome]}
               /\ replay' = [replay EXCEPT !.rows = rest, !.attempt = 0,
                                           !.replayed = @ + 1,
                                           !.active = (rest # <<>>)]
          ELSE /\ replay' = IF UpsertAttemptsLeft(attempt)
                            THEN [replay EXCEPT !.attempt = attempt]
                            ELSE [replay EXCEPT !.rows = rest, !.attempt = 0,
                                                !.failed = @ + 1,
                                                !.active = (rest # <<>>)]
               /\ UNCHANGED <<chroma, upserted, deadLetters, replayOutcome>>
    /\ UNCHANGED <<cfgMaxRetries, pending, nextPendingId, processedEvents, sessions,
                   observations, userPrompts, summaries, isProcessing, batch,
                   processedCount, failedCount, failures, delivered, marked, firstInsert,
                   effects, embedVars, privacyVars, sseVars, apiVars, chromaSync, inFlight,
                   syncRuns, syncCursor, syncHashes, syncRejected, lastDelete,
                   syncDeadLettered>>

\* clearSyncStateForProject: the chroma.cursor.<project> row is deleted
ClearSyncStateForProject(cursors, project) == [cursors EXCEPT ![project] = 0]

\* deleteByProject(project) with the answer of the external store to the delete:
\* "ok", or "error" for a response that is not ok and for a fetch that throws
DeleteByProject(project, response) ==
    LET outcome == IF ~chromaSync.initialized THEN "not_initialized" ELSE response
    IN /\ lastDelete' = [project |-> project, outcome |-> outcome]
       /\ IF outcome = "ok"
          THEN /\ chroma' = {r \in chroma : r.project # project}
               /\ syncCursor' = ClearSyncStateForProject(syncCursor, project)
          ELSE UNCHANGED <<chroma, syncCursor>>
       /\ UNCHANGED <<ingestVars, embedVars, privacyVars, sseVars, apiVars, chromaSync, inFlight,
                      syncRuns, syncHashes, replay, syncRejected, upserted,
                      syncDeadLettered, replayOutcome>>

SyncNext ==
    \/ ObservationRequest
    \/ \E s \in Sessions : InitSession(s)
    \/ PollStart
    \/ ProcessNext
    \/ \E scope \in Scopes : SyncCall(scope)
    \/ \E ok \in BOOLEAN : UpsertAttempt(ok)
    \/ ReplayStart
    \/ \E ok \in BOOLEAN : ReplayAttempt(ok)
    \/ \E response \in {"ok", "error"} : DeleteByProject(Project, response)
    \/ \E chromaReady \in BOOLEAN : WorkerRestart(FALSE, chromaReady)

\* the worker runs with the default maxRetries
InitSync == Init /\ cfgMaxRetries = DefaultMaxRetries

SpecSync == InitSync /\ [][SyncNext]_vars

\* sync(project) when the store fails the INSERT of beginSyncRun: the guard is set, the
\* exception leaves sync before its try, so neither catch nor finally runs
BeginSyncRunThrows(scope) ==
    /\ ~SyncGuard(chromaSync.isSyncing)
    /\ chromaSync.initialized
    /\ chromaSync' = [chromaSync EXCEPT !.isSyncing = TRUE]
    /\ UNCHANGED <<ingestVars, embedVars, privacyVars, sseVars, apiVars, replay, lastDelete,
                   replayOutcome, chroma, syncHashes, upserted, syncDeadLettered,
                   syncRejected, inFlight, syncRuns, syncCursor>>

\* the replicator with a store that can fail a query
SyncFaultNext ==
    \/ ObservationRequest
    \/ \E s \in Sessions : InitSession(s)
    \/ PollStart
    \/ ProcessNext
    \/ \E scope \in Scopes : SyncCall(scope)
    \/ \E ok \in BOOLEAN : UpsertAttempt(ok)
    \/ \E chromaReady \in BOOLEAN : WorkerRestart(FALSE, chromaReady)
    \/ \E scope \in Scopes : BeginSyncRunThrows(scope)

SpecSyncFault == InitSync /\ [][SyncFaultNext]_vars

\* C38: whenever no sync call is executing isSyncing is false, whichever step of the
\* run failed, the recording of the sync run included
C38_GuardReleased ==
    inFlight = {} => ~chromaSync.isSyncing

RunIds(rows) == {r.id : r \in rows}

InScope(obs, scope) == obs.text # "" /\ (scope # AllProjects => ProjectOf(obs) = scope)

\* C16: the replicator is not re-entrant: at most one sync body is in flight, no
\* sync_runs row is created while one is, and a sync call made while one is in flight
\* returns with no run recorded and the cursor, the content hashes and the body in
\* flight as they were
C16_SyncNotReentrant ==
    [][/\ Cardinality(inFlight') <= 1
       /\ (inFlight' # {} => chromaSync'.isSyncing)
       /\ (chromaSync.isSyncing => RunIds(syncRuns') = RunIds(syncRuns))
       /\ (chromaSync.isSyncing /\ ~syncRejected /\ syncRejected'
              => UNCHANGED <<syncRuns, syncCursor, syncHashes, inFlight, chroma,
                             chromaSync, deadLetters>>)]_vars

C16_Witness ==
    /\ syncRejected
    /\ chromaSync.isSyncing
    /\ \E run \in inFlight : run.attempt > 0

\* C17 as stated: every observation of a scope, with a text, whose id is at most the
\* scope's cursor has been upserted to the external store
C17_CursorMeansUpserted ==
    \A scope \in Scopes : \A o \in observations :
        InScope(o, scope) /\ o.id <= syncCursor[scope] => o.id \in upserted

\* C17: every observation of a scope, with a text, whose id is at most the scope's
\* cursor has been upserted to the external store, or its upsert failed after the
\* retries and a chroma_sync dead letter was written for it
C17_CursorMeansUpsertedOrDeadLettered ==
    \A scope \in Scopes : \A o \in observations :
        InScope(o, scope) /\ o.id <= syncCursor[scope]
            => o.id \in upserted \/ o.id \in syncDeadLettered

C17_Witness ==
    \E scope \in Scopes : \E o, later \in observations :
        /\ o.id < later.id
        /\ later.id <= syncCursor[scope]
        /\ o.id \in syncDeadLettered \ upserted
        /\ later.id \in upserted

\* C18: the payload of every chroma_sync dead letter holds the record whose upsert
\* failed, as sync built it for the observation
C18_DeadLetterCapturesFailedRecord ==
    \A d \in deadLetters :
        d.queue_name = "chroma_sync"
            => \E o \in observations : /\ o.id = d.entity_id
                                       /\ d.payload.record = SyncedRecord(o)

\* C19: replayFailed deletes a chroma_sync dead letter only when the external store
\* accepted an upsert of its record
C19_ReplayDeletesOnlyUpserted ==
    \A e \in replayOutcome : e.outcome = "stored"

\* C20: every call of deleteByProject(project) leaves the cursor of the project
\* cleared, whatever the external store answered
C20_DeleteClearsCursor ==
    [][lastDelete' # lastDelete => syncCursor'[lastDelete'.project] = 0]_vars

----
\* SSEBroadcaster: the registry of /api/stream clients and the live events

StreamProjects == {NoProject, Project, "p2"}
StreamSessions == {NoSessionId, "s1", "s2"}

\* GET /api/stream -> addClient: a new id, entered under its project and its session
AddClient(project, sessionId) ==
    /\ clientCount < MaxClients
    /\ clientCount' = clientCount + 1
    /\ sseBroadcaster' =
          [clients |-> sseBroadcaster.clients \cup
                          {[id |-> clientCount + 1, project |-> project,
                            sessionId |-> sessionId]},
           projectClients |->
              [p \in DOMAIN sseBroadcaster.projectClients |->
                  IF project # NoProject /\ p = project
                  THEN sseBroadcaster.projectClients[p] \cup {clientCount + 1}
                  ELSE sseBroadcaster.projectClients[p]],
           sessionClients |->
              [x \in DOMAIN sseBroadcaster.sessionClients |->
                  IF sessionId # NoSessionId /\ x = sessionId
                  THEN sseBroadcaster.sessionClients[x] \cup {clientCount + 1}
                  ELSE sseBroadcaster.sessionClients[x]]]
    /\ UNCHANGED <<ingestVars, embedVars, privacyVars, syncVars, apiVars, received,
                   sendFailed, lastBroadcast>>

\* the connection of a client closes: removeClient
CloseClient(clientId) ==
    /\ \E c \in sseBroadcaster.clients : c.id = clientId
    /\ sseBroadcaster' = RemoveClient(sseBroadcaster, clientId)
    /\ UNCHANGED <<ingestVars, embedVars, privacyVars, syncVars, apiVars, clientCount,
                   received, sendFailed, lastBroadcast>>

\* broadcast(message, project, sessionId) called directly
BroadcastCall(project, sessionId) ==
    /\ lastBroadcast.n < MaxBroadcasts
    /\ \E failing \in SUBSET {c.id : c \in sseBroadcaster.clients} :
          Broadcast([type |-> "message", seq |-> lastBroadcast.n + 1], project, sessionId,
                    failing)
    /\ lastBroadcast' = [n |-> lastBroadcast.n + 1, project |-> project,
                         sessionId |-> sessionId]
    /\ UNCHANGED <<ingestVars, embedVars, privacyVars, syncVars, apiVars, clientCount>>

SSENext ==
    \/ \E project \in StreamProjects, sessionId \in StreamSessions :
          AddClient(project, sessionId)
    \/ \E clientId \in ClientIds : CloseClient(clientId)
    \/ \E project \in StreamProjects, sessionId \in StreamSessions :
          BroadcastCall(project, sessionId)

SpecSSE == Init /\ [][SSENext]_vars

\* closeAll, as shutdownWorker calls it
CloseAllCall ==
    /\ sseBroadcaster' = CloseAll(sseBroadcaster)
    /\ UNCHANGED <<ingestVars, embedVars, privacyVars, syncVars, apiVars, clientCount,
                   received, sendFailed, lastBroadcast>>

SSEAllNext ==
    \/ SSENext
    \/ CloseAllCall

SpecSSEAll == Init /\ [][SSEAllNext]_vars

\* the clients subscribed with the project or with the session; all of them when the
\* broadcast names neither
Subscribed(project, sessionId) ==
    IF project = NoProject /\ sessionId = NoSessionId
    THEN {c.id : c \in sseBroadcaster.clients}
    ELSE {c.id : c \in {x \in sseBroadcaster.clients :
                           \/ project # NoProject /\ x.project = project
                           \/ sessionId # NoSessionId /\ x.sessionId = sessionId}}

Registered == {c.id : c \in sseBroadcaster.clients}

\* C21: a broadcast's message is sent to exactly the registered clients subscribed
\* with its project or its session, to all registered clients when it names neither,
\* once to each: such a client takes the message or its send fails, and no other
\* client is sent anything
C21_BroadcastTargets ==
    [][lastBroadcast' # lastBroadcast =>
          \A id \in ClientIds :
              IF id \in Subscribed(lastBroadcast'.project, lastBroadcast'.sessionId)
              THEN \/ /\ received'[id] =
                            Append(received[id],
                                   [type |-> "message", seq |-> lastBroadcast'.n])
                      /\ id \notin sendFailed'
                   \/ /\ received'[id] = received[id]
                      /\ id \in sendFailed' \ sendFailed
              ELSE /\ received'[id] = received[id]
                   /\ (id \in sendFailed' <=> id \in sendFailed)]_vars

C21_Witness ==
    /\ lastBroadcast.project = Project
    /\ lastBroadcast.sessionId = "s1"
    /\ \E a, b \in sseBroadcaster.clients :
          /\ a.project = Project /\ a.sessionId = "s2"
          /\ b.project = "p2" /\ b.sessionId = "s1"
          /\ received[a.id] # <<>> /\ received[a.id][Len(received[a.id])].seq = lastBroadcast.n
          /\ received[b.id] # <<>> /\ received[b.id][Len(received[b.id])].seq = lastBroadcast.n

\* C22: a client whose send failed is out of the registry and is sent nothing any
\* more, and in the broadcast where a send failed every other target took the message
C22_FailedClientRemoved ==
    [][/\ \A id \in sendFailed' : id \notin {c.id : c \in sseBroadcaster'.clients}
       /\ \A id \in sendFailed : received'[id] = received[id]
       /\ (lastBroadcast' # lastBroadcast /\ sendFailed' # sendFailed =>
              \A id \in Subscribed(lastBroadcast'.project, lastBroadcast'.sessionId)
                        \ sendFailed' :
                  Len(received'[id]) = Len(received[id]) + 1)]_vars

C22_Witness ==
    /\ lastBroadcast.n = 2
    /\ \E failed \in sendFailed, other \in Registered :
          /\ received[failed] = <<>>
          /\ Len(received[other]) = 2

\* C39: a client id is in the project index of p exactly when the registry holds that
\* client with project p, and in the session index of s exactly when the registry
\* holds it with sessionId s
C39_IndicesMatchRegistry ==
    /\ \A p \in DOMAIN sseBroadcaster.projectClients :
          sseBroadcaster.projectClients[p] =
             {c.id : c \in {x \in sseBroadcaster.clients : x.project = p}}
    /\ \A s \in DOMAIN sseBroadcaster.sessionClients :
          sseBroadcaster.sessionClients[s] =
             {c.id : c \in {x \in sseBroadcaster.clients : x.sessionId = s}}

\* clients were added and then all went (closed, failed or closeAll) but one, which is
\* still under its project and its session
C39_Witness ==
    /\ clientCount = MaxClients
    /\ sendFailed # {}
    /\ \E c \in sseBroadcaster.clients :
          /\ sseBroadcaster.clients = {c}
          /\ c.project # NoProject /\ c.id \in sseBroadcaster.projectClients[c.project]
          /\ c.sessionId # NoSessionId /\ c.id \in sseBroadcaster.sessionClients[c.sessionId]

----
\* Live events of the ingest loop, as the clients subscribed to the session get them

LiveNext ==
    \/ IngestRequest
    \/ PollStart
    \/ ProcessNext
    \/ Tick
    \/ \E s \in Sessions : AddClient(NoProject, s)

SpecLive == InitLive /\ [][LiveNext]_vars

\* C23: every client gets the live events of the ingested events of a session in the
\* order in which the events arrived (the order of their pending_messages ids)
C23_LiveEventsInArrivalOrder ==
    \A id \in ClientIds : \A i, j \in 1..Len(received[id]) :
        /\ i < j
        /\ received[id][i].seq > 0
        /\ received[id][j].seq > 0
        => received[id][i].seq < received[id][j].seq

----
\* Search: SearchOrchestrator, its strategies and filters, and the Ranker

LexicalWeight == 45
RecencyWeight == 15
QueryLen == 5
SearchLimit == 20
StrategyLimit == 100

\* the observations the searches run over: fullTextLen is the length of title,
\* subtitle and text joined by the ranker; match tells whether the query is a token
\* prefix of the text ("token"), only a substring ("substring") or absent; bm25 is what
\* bm25(memory_index) gives a matching row (lower is better, never positive);
\* similarity is the cosine similarity of the row's vector to the query, in
\* thousandths, 0 when the row has no vector
SearchStore ==
    {[id |-> 1, project |-> "p1", type |-> "general", created_at_epoch |-> 1,
      fullTextLen |-> 10, match |-> "token", bm25 |-> 0 - 2, similarity |-> 800],
     [id |-> 2, project |-> "p1", type |-> "general", created_at_epoch |-> 1,
      fullTextLen |-> 10, match |-> "token", bm25 |-> 0 - 1, similarity |-> 0],
     [id |-> 3, project |-> "p2", type |-> "general", created_at_epoch |-> 2,
      fullTextLen |-> 20, match |-> "substring", bm25 |-> 0, similarity |-> 0],
     [id |-> 4, project |-> "p1", type |-> "decision", created_at_epoch |-> 3,
      fullTextLen |-> 20, match |-> "none", bm25 |-> 0, similarity |-> 600]}

\* a result row: the columns a strategy selects and the scores it attaches
ResultRow(o, scores) ==
    [id |-> o.id, project |-> o.project, type |-> o.type,
     created_at_epoch |-> o.created_at_epoch, fullTextLen |-> o.fullTextLen,
     match |-> o.match, scores |-> scores]

ScoreOf(r, name) == {x[2] : x \in {y \in r.scores : y[1] = name}}

RECURSIVE SortByKey(_, _)
\* rows in ascending order of key[id] (ties by id, the order of the rowids)
SortByKey(rows, key) ==
    IF rows = {} THEN <<>>
    ELSE LET first == CHOOSE r \in rows : \A o \in rows :
                         key[r.id] < key[o.id] \/ (key[r.id] = key[o.id] /\ r.id <= o.id)
         IN <<first>> \o SortByKey(rows \ {first}, key)

WhereClause(o, project, type) ==
    /\ (project # NoProject => o.project = project)
    /\ (type # NoType => o.type = type)

\* executeFTSStrategy: the rows matching the query, best bm25 first, with fts_rank;
\* nothing when the query throws
ExecuteFTSStrategy(project, type, ftsOk) ==
    IF ~ftsOk THEN <<>>
    ELSE LET rows == {o \in SearchStore : o.match = "token" /\ WhereClause(o, project, type)}
             found == SortByKey(rows, [i \in {o.id : o \in SearchStore} |->
                                          (CHOOSE o \in SearchStore : o.id = i).bm25])
         IN Take([i \in 1..Len(found) |->
                     ResultRow(found[i], {<<"fts_rank", found[i].bm25>>})], StrategyLimit)

\* executeSemanticStrategy: nothing without a project, without the vector service or
\* when the provider fails; else the project's rows with a vector, in id order, with
\* semanticScore
ExecuteSemanticStrategy(project, semanticOk) ==
    IF project = NoProject \/ ~vectorService.initialized \/ ~semanticOk THEN <<>>
    ELSE LET rows == {o \in SearchStore : o.project = project /\ o.similarity > 0}
             found == SortById(rows)
         IN [i \in 1..Len(found) |->
                ResultRow(found[i], {<<"semanticScore", found[i].similarity>>})]

\* executeFallbackStrategy: title, text or subtitle LIKE %query%, newest first
ExecuteFallbackStrategy(project, type) ==
    LET rows == {o \in SearchStore : o.match # "none" /\ WhereClause(o, project, type)}
        found == SortByKey(rows, [i \in {o.id : o \in SearchStore} |->
                                     0 - (CHOOSE o \in SearchStore : o.id = i).created_at_epoch])
    IN Take([i \in 1..Len(found) |-> ResultRow(found[i], {})], StrategyLimit)

Ids(results) == {results[i].id : i \in 1..Len(results)}

RECURSIVE SelectSeq2(_, _)
\* the elements of results whose position is in keep, in their order
SelectSeq2(results, keep) ==
    IF results = <<>> THEN <<>>
    ELSE LET n == Len(results)
             front == SelectSeq2(SubSeq(results, 1, n - 1), keep)
         IN IF n \in keep THEN Append(front, results[n]) ELSE front

\* mergeResults with a later hit's scores added to the row already there
MergeResults_AddScores(existing, newResults) ==
    LET all == existing \o newResults
        firstAt(i) == \A j \in 1..(i - 1) : all[j].id # all[i].id
        firsts == SelectSeq2(all, {i \in 1..Len(all) : firstAt(i)})
    IN [i \in 1..Len(firsts) |->
           [firsts[i] EXCEPT !.scores =
               @ \cup UNION {all[j].scores : j \in {k \in 1..Len(all) : all[k].id = firsts[i].id}}]]

\* mergeResults: a Map by id filled from existing, then from newResults for the ids
\* not in it; the values in insertion order
MergeResults(existing, newResults) ==
    LET all == existing \o newResults
        \* Map.set on a key already there replaces the value and keeps the position
        lastOfExisting(i) == i <= Len(existing) /\
                             \A j \in (i + 1)..Len(existing) : existing[j].id # existing[i].id
        firstPosition(i) == \A j \in 1..(i - 1) : all[j].id # all[i].id
        valueFor(i) == IF i <= Len(existing)
                       THEN existing[CHOOSE j \in 1..Len(existing) :
                                        existing[j].id = all[i].id /\ lastOfExisting(j)]
                       ELSE all[i]
    IN LET keep == {i \in 1..Len(all) : firstPosition(i)}
           values == [i \in 1..Len(all) |-> IF i \in keep THEN valueFor(i) ELSE all[i]]
       IN SelectSeq2(values, keep)

\* the filters GET /api/search builds for its request
FiltersOf(project, type) ==
    (IF project # NoProject THEN <<[name |-> "project", value |-> project]>> ELSE <<>>)
    \o (IF type # NoType THEN <<[name |-> "type", value |-> type]>> ELSE <<>>)
    \o <<[name |-> "deduplicate", value |-> "id"],
         [name |-> "relevanceThreshold", value |-> "0"]>>

\* RelevanceThresholdFilter(0): finalScore || similarity || fts_rank || 0 is at least 0
\* (a result row has no finalScore and no similarity before the ranker runs)
PassesThreshold(r) ==
    \A v \in ScoreOf(r, "fts_rank") : v >= 0

\* one filter's filter(results)
ApplyOneFilter(f, results) ==
    CASE f.name = "project" ->
            SelectSeq2(results, {i \in 1..Len(results) : results[i].project = f.value})
      [] f.name = "type" ->
            SelectSeq2(results, {i \in 1..Len(results) : results[i].type = f.value})
      [] f.name = "deduplicate" ->
            SelectSeq2(results, {i \in 1..Len(results) :
                                    \A j \in 1..(i - 1) : results[j].id # results[i].id})
      [] OTHER ->
            SelectSeq2(results, {i \in 1..Len(results) : PassesThreshold(results[i])})

RECURSIVE ApplyFilters(_, _)
ApplyFilters(filters, results) ==
    IF filters = <<>> THEN results
    ELSE ApplyFilters(Tail(filters), ApplyOneFilter(Head(filters), results))

\* calculateLexicalScore in thousandths: min(0.5 + ratio * 0.5, 1) when the text holds
\* the query, else the share of the query's words it holds (the query is one word)
LexicalScore(r) ==
    IF r.match = "none" THEN 0
    ELSE LET v == 500 + (QueryLen * 500) \div r.fullTextLen
         IN IF v > 1000 THEN 1000 ELSE v

\* finalScore of r among results, times 100000 and times (maxTime - minTime) when that
\* is not 0: lexicalWeight * lexicalScore + recencyWeight * normalizeScore(created);
\* the semantic score is 0 (the orchestrator passes an empty map) and so is tagBoost
FinalScore(r, results) ==
    LET times == {results[i].created_at_epoch : i \in 1..Len(results)}
        minTime == CHOOSE t \in times : \A u \in times : t <= u
        maxTime == CHOOSE t \in times : \A u \in times : t >= u
    IN IF maxTime = minTime
       THEN LexicalWeight * LexicalScore(r) + RecencyWeight * 500
       ELSE LexicalWeight * LexicalScore(r) * (maxTime - minTime)
            + RecencyWeight * 1000 * (r.created_at_epoch - minTime)

RECURSIVE InsertByScore(_, _, _)
\* x goes behind every row whose score is not lower (Array.prototype.sort is stable)
InsertByScore(sorted, x, results) ==
    IF sorted = <<>> THEN <<x>>
    ELSE IF FinalScore(Head(sorted), results) >= FinalScore(x, results)
         THEN <<Head(sorted)>> \o InsertByScore(Tail(sorted), x, results)
         ELSE <<x>> \o sorted

RECURSIVE SortPrefix(_, _)
SortPrefix(results, n) ==
    IF n = 0 THEN <<>>
    ELSE InsertByScore(SortPrefix(results, n - 1), results[n], results)

\* Ranker.scoreWithSemantic: score every row (the semantic score comes from the map
\* given, never from the row), sort by finalScore descending
ScoreWithSemantic(results) ==
    LET sorted == SortPrefix(results, Len(results))
    IN [i \in 1..Len(sorted) |->
           [sorted[i] EXCEPT !.scores = {<<"lexicalScore", LexicalScore(sorted[i])>>,
                                         <<"semanticScore", 0>>,
                                         <<"finalScore", FinalScore(sorted[i], results)>>}]]

\* search after its strategies: fallback when nothing was found, the orchestrator's
\* filters, the ranker, the slice
FinishSearch(results, filters, project, type) ==
    LET found == IF results = <<>> THEN ExecuteFallbackStrategy(project, type) ELSE results
    IN Take(ScoreWithSemantic(ApplyFilters(filters, found)), SearchLimit)

\* does search await the embedding provider
AwaitsProvider(project) == project # NoProject /\ vectorService.initialized

\* what the request gets when no other request touches the orchestrator
SearchAlone(project, type, ftsOk, semanticOk) ==
    FinishSearch(MergeResults(MergeResults(<<>>, ExecuteFTSStrategy(project, type, ftsOk)),
                              ExecuteSemanticStrategy(project, semanticOk)),
                 FiltersOf(project, type), project, type)

SearchIdle ==
    /\ ~merged.called
    /\ ~ranked.called
    /\ \A r \in 1..MaxSearches : searches[r].phase = "idle"

\* GET /api/search up to the embedding provider's answer: setFilters, the FTS strategy;
\* the whole request when search does not go to the provider
SearchRequest(r, project, type, ftsOk) ==
    /\ ~merged.called
    /\ ~ranked.called
    /\ searches[r].phase = "idle"
    /\ LET results == MergeResults(<<>>, ExecuteFTSStrategy(project, type, ftsOk))
       IN IF AwaitsProvider(project)
          THEN /\ orchestrator' = [orchestrator EXCEPT !.filters = FiltersOf(project, type)]
               /\ searches' = [searches EXCEPT ![r] =
                                 [phase |-> "semantic", project |-> project, type |-> type,
                                  ftsOk |-> ftsOk, results |-> results,
                                  semanticOk |-> FALSE, response |-> <<>>]]
          ELSE /\ orchestrator' = [filters |-> FiltersOf(project, type),
                                   lastDiagnostics |-> r]
               /\ searches' = [searches EXCEPT ![r] =
                                 [phase |-> "done", project |-> project, type |-> type,
                                  ftsOk |-> ftsOk, results |-> results,
                                  semanticOk |-> FALSE,
                                  response |-> FinishSearch(results, FiltersOf(project, type),
                                                            project, type)]]
    /\ UNCHANGED <<ingestVars, embedVars, privacyVars, syncVars, sseVars, merged, ranked,
                   contextVars, adminVars>>

\* the provider answers: the semantic strategy, the merge, this.filters, the ranker
SearchResume(r, semanticOk) ==
    /\ searches[r].phase = "semantic"
    /\ LET q == searches[r]
           results == MergeResults(q.results, ExecuteSemanticStrategy(q.project, semanticOk))
       IN /\ searches' = [searches EXCEPT ![r] =
                            [q EXCEPT !.phase = "done", !.results = results,
                                      !.semanticOk = semanticOk,
                                      !.response = FinishSearch(results, orchestrator.filters,
                                                                q.project, q.type)]]
          /\ orchestrator' = [orchestrator EXCEPT !.lastDiagnostics = r]
    /\ UNCHANGED <<ingestVars, embedVars, privacyVars, syncVars, sseVars, merged, ranked,
                   contextVars, adminVars>>

\* the lists a strategy can return for the store
StrategyRows ==
    {ResultRow(o, {<<"fts_rank", o.bm25>>}) : o \in {x \in SearchStore : x.match = "token"}}
    \cup {ResultRow(o, {<<"semanticScore", o.similarity>>}) :
             o \in {x \in SearchStore : x.similarity > 0}}
    \cup {ResultRow(o, {}) : o \in {x \in SearchStore : x.match # "none"}}

ResultLists(rows, n) ==
    {l \in UNION {[1..k -> rows] : k \in 0..n} :
        \A i, j \in 1..Len(l) : i # j => l[i].id # l[j].id}

\* mergeResults called on two strategies' lists
MergeCall(existing, newResults) ==
    /\ merged' = [called |-> TRUE, existing |-> existing, newResults |-> newResults,
                  output |-> MergeResults(existing, newResults)]
    /\ UNCHANGED <<ingestVars, embedVars, privacyVars, syncVars, sseVars, orchestrator,
                   searches, ranked, contextVars, adminVars>>

\* scoreWithSemantic called on a list of rows
RankCall(results) ==
    /\ ranked' = [called |-> TRUE, results |-> results,
                  output |-> ScoreWithSemantic(results)]
    /\ UNCHANGED <<ingestVars, embedVars, privacyVars, syncVars, sseVars, orchestrator,
                   searches, merged, contextVars, adminVars>>

SearchNext ==
    \/ \E r \in 1..MaxSearches, project \in {NoProject, "p1", "p2"},
          type \in {NoType, "general"}, ftsOk \in BOOLEAN :
          SearchRequest(r, project, type, ftsOk)
    \/ \E r \in 1..MaxSearches, semanticOk \in BOOLEAN : SearchResume(r, semanticOk)
    \/ SearchIdle /\ \E existing, newResults \in ResultLists(StrategyRows, MaxListLen - 1) :
          MergeCall(existing, newResults)
    \/ SearchIdle /\ \E results \in ResultLists(StrategyRows, MaxListLen) : RankCall(results)
    \/ SearchIdle /\ \E enabled \in BOOLEAN : WorkerRestart(enabled, FALSE)

SpecSearch == Init /\ [][SearchNext]_vars

\* C24: the results a finished search request returns are those of the request run
\* alone on the store: they depend on its own project, type and strategy outcomes
\* only, never on another request in flight
C24_SearchIsStateless ==
    \A r \in 1..MaxSearches :
        searches[r].phase = "done" =>
            searches[r].response = SearchAlone(searches[r].project, searches[r].type,
                                               searches[r].ftsOk, searches[r].semanticOk)

\* C25: the merged list holds each id once, the first occurrence's row, and that row
\* carries the scores of every later hit for the same id as well
C25_MergeAddsMissingScores ==
    merged.called =>
        LET all == merged.existing \o merged.newResults
            out == merged.output
        IN /\ \A i, j \in 1..Len(out) : i # j => out[i].id # out[j].id
           /\ Ids(out) = Ids(all)
           /\ \A i \in 1..Len(out) : \A k \in 1..Len(all) :
                 all[k].id = out[i].id => all[k].scores \subseteq out[i].scores

\* C26: the ranked list is in descending order of final score, rows of equal score by
\* higher created_at_epoch and then by higher id
C26_RankingTieBreak ==
    ranked.called =>
        LET out == ranked.output
            final(r) == FinalScore(r, ranked.results)
        IN \A i, j \in 1..Len(out) :
              i < j =>
                 \/ final(out[i]) > final(out[j])
                 \/ /\ final(out[i]) = final(out[j])
                    /\ \/ out[i].created_at_epoch > out[j].created_at_epoch
                       \/ /\ out[i].created_at_epoch = out[j].created_at_epoch
                          /\ out[i].id > out[j].id

----
\* Context injection: POST /api/memory/save and GET /api/context/inject

SummaryLimit == 150
ContentLimit == 200
CharsPerToken == 4
ObservationMinLen == 20
DefaultMaxMemoriesNum == 3
MemoryProjects == {Project, "p2"}
MemorySessions == {NoSessionId, "s1", "s2"}
MemoryTextLens == {4, 160}
BudgetChoices == {0, 2, 41}
LimitChoices == {0, 2, 0 - 1}

\* estimateTokens of a text of textLen characters: Math.ceil(text.length / 4)
EstimateTokens(textLen) == (textLen + CharsPerToken - 1) \div CharsPerToken

\* the text of a memory's line: m.summary || m.content.substring(0, 200)
InjectTextLen(m) ==
    IF m.summaryLen > 0 THEN m.summaryLen
    ELSE IF m.contentLen > ContentLimit THEN ContentLimit ELSE m.contentLen

\* POST /api/memory/save: the row has the text as content and its first 150
\* characters as summary, session_id NULL when the body has no sessionId. A text of
\* more than 20 characters is also inserted as an observation (of the session given,
\* or of "manual"), queued for embedding and broadcast; that INSERT throws on the
\* sessions foreign key when the session has no row, and the memory stays
SaveMemory(project, sessionId, textLen, seconds) ==
    /\ ~injected.called
    /\ Cardinality(memories) < MaxMemories
    /\ memClock' = memClock + seconds
    /\ memories' = memories \cup
          {[id |-> Cardinality(memories) + 1, project |-> project, session_id |-> sessionId,
            created_at |-> memClock + seconds, contentLen |-> textLen,
            summaryLen |-> IF textLen > SummaryLimit THEN SummaryLimit ELSE textLen]}
    /\ LET observationSession == IF sessionId = NoSessionId THEN "manual" ELSE sessionId
           inserted == /\ textLen > ObservationMinLen
                       /\ observationSession \in DOMAIN sessions
                       /\ sessions[observationSession].present
           observationId == NextRowId(observations)
       IN IF inserted
          THEN /\ observations' = observations \cup
                     {[id |-> observationId, session_id |-> observationSession,
                       text |-> "note"]}
               /\ vectorService' = EnqueueEmbedding(vectorService, observationId)
               /\ BroadcastEvent("memory_saved", 0, project, sessionId)
          ELSE UNCHANGED <<observations, vectorService, sseVars>>
    /\ UNCHANGED <<cfgMaxRetries, pending, nextPendingId, processedEvents, deadLetters,
                   sessions, userPrompts, summaries, isProcessing, batch, processedCount,
                   failedCount, failures, delivered, marked, firstInsert, effects,
                   vectors, restarts, embedLog, deadLetteredAt, privacyVars, syncVars,
                   searchVars, injected, adminVars>>

\* WHERE project = ? with no session exclusion
InjectWhere_AllSessions(m, project, sessionId) ==
    m.project = project

\* WHERE project = ? [AND (session_id IS NULL OR session_id != ?)]
InjectWhere(m, project, sessionId) ==
    /\ m.project = project
    /\ (sessionId # NoSessionId =>
           (m.session_id = NoSessionId \/ m.session_id # sessionId))

\* Number(maxMemories || contextSettings.maxMemories || ... || 3)
MaxMemoriesNum(maxMemories) ==
    IF maxMemories = 0 THEN DefaultMaxMemoriesNum ELSE maxMemories

\* LIMIT ?: a negative limit is no limit
Limit(rows, n) == IF n < 0 THEN rows ELSE Take(rows, n)

\* the orders ORDER BY created_at DESC allows for the rows: rows of the same second
\* come in any order
NewestFirst(rows) ==
    {l \in [1..Cardinality(rows) -> rows] :
        /\ \A i, j \in 1..Len(l) : i # j => l[i] # l[j]
        /\ \A i, j \in 1..Len(l) : i < j => l[i].created_at >= l[j].created_at}

RECURSIVE ContextLines_Skip(_, _, _)
\* the loop with continue in place of break
ContextLines_Skip(rows, currentTokens, maxTokensNum) ==
    IF rows = <<>> THEN <<>>
    ELSE LET itemTokens == EstimateTokens(InjectTextLen(Head(rows)))
         IN IF currentTokens + itemTokens > maxTokensNum
            THEN ContextLines_Skip(Tail(rows), currentTokens, maxTokensNum)
            ELSE <<Head(rows)>> \o
                 ContextLines_Skip(Tail(rows), currentTokens + itemTokens, maxTokensNum)

RECURSIVE ContextLines(_, _, _)
\* the loop over the rows: break at the first row whose tokens do not fit
ContextLines(rows, currentTokens, maxTokensNum) ==
    IF rows = <<>> THEN <<>>
    ELSE LET itemTokens == EstimateTokens(InjectTextLen(Head(rows)))
         IN IF currentTokens + itemTokens > maxTokensNum
            THEN <<>>
            ELSE <<Head(rows)>> \o
                 ContextLines(Tail(rows), currentTokens + itemTokens, maxTokensNum)

RECURSIVE TokensOf(_)
TokensOf(rows) ==
    IF rows = <<>> THEN 0
    ELSE EstimateTokens(InjectTextLen(Head(rows))) + TokensOf(Tail(rows))

\* GET /api/context/inject
ContextInject(project, sessionId, maxTokens, maxMemories) ==
    /\ ~injected.called
    /\ \E ordered \in NewestFirst({m \in memories : InjectWhere(m, project, sessionId)}) :
          LET rows == Limit(ordered, MaxMemoriesNum(maxMemories))
              lines == ContextLines(rows, 0, maxTokens)
          IN injected' = [called |-> TRUE, project |-> project, sessionId |-> sessionId,
                          maxTokens |-> maxTokens, maxMemories |-> maxMemories,
                          rows |-> rows, lines |-> lines,
                          tokenEstimate |-> TokensOf(lines)]
    /\ UNCHANGED <<ingestVars, embedVars, privacyVars, syncVars, sseVars, searchVars,
                   memories, memClock, adminVars>>

ContextNext ==
    \/ memories = {} /\ \E sessionId \in Sessions : InitSession(sessionId)
    \/ \E project \in MemoryProjects, sessionId \in MemorySessions,
          textLen \in MemoryTextLens, seconds \in {0, 1} :
          SaveMemory(project, sessionId, textLen, seconds)
    \/ \E sessionId \in {NoSessionId, "s1"}, maxTokens \in BudgetChoices,
          maxMemories \in LimitChoices :
          ContextInject(Project, sessionId, maxTokens, maxMemories)

InitContext == Init /\ cfgMaxRetries = DefaultMaxRetries

SpecContext == InitContext /\ [][ContextNext]_vars

\* C27: the lines of a context injection are a prefix of the rows selected (newest
\* first, at most maxMemories), their estimated tokens sum to at most maxTokens, and
\* the prefix ends only at the end of the rows or at a row that does not fit
C27_PrefixWithinBudget ==
    injected.called =>
        LET rows == injected.rows
            lines == injected.lines
        IN /\ Len(lines) <= Len(rows)
           /\ lines = SubSeq(rows, 1, Len(lines))
           /\ (injected.maxMemories > 0 => Len(rows) <= injected.maxMemories)
           /\ \A i, j \in 1..Len(rows) : i < j => rows[i].created_at >= rows[j].created_at
           /\ TokensOf(lines) <= injected.maxTokens
           /\ injected.tokenEstimate = TokensOf(lines)
           /\ (Len(lines) < Len(rows) =>
                  TokensOf(lines) + EstimateTokens(InjectTextLen(rows[Len(lines) + 1]))
                     > injected.maxTokens)

\* a row that does not fit is followed by a row that would have fitted, and the lines
\* stop before both
C27_Witness ==
    /\ injected.called
    /\ Len(injected.lines) >= 1
    /\ Len(injected.rows) >= Len(injected.lines) + 2
    /\ TokensOf(injected.lines)
          + EstimateTokens(InjectTextLen(injected.rows[Len(injected.lines) + 2]))
          <= injected.maxTokens

\* C28: an injection for session s has no row of session s, and every memory of the
\* project from another session (or from none) is among the rows unless the limit
\* on their number cut it
C28_CurrentSessionExcluded ==
    (injected.called /\ injected.sessionId # NoSessionId) =>
        /\ \A i \in 1..Len(injected.rows) : injected.rows[i].session_id # injected.sessionId
        /\ \A i \in 1..Len(injected.lines) : injected.lines[i].session_id # injected.sessionId
        /\ \A m \in memories :
              (m.project = injected.project /\ m.session_id # injected.sessionId) =>
                 \/ \E i \in 1..Len(injected.rows) : injected.rows[i] = m
                 \/ Len(injected.rows) = MaxMemoriesNum(injected.maxMemories)

\* the project has a memory of the session asked for and one of another session, and
\* the other one is in the lines
C28_Witness ==
    /\ injected.called
    /\ injected.sessionId # NoSessionId
    /\ \E m \in memories : m.project = injected.project /\ m.session_id = injected.sessionId
    /\ \E i \in 1..Len(injected.lines) :
          injected.lines[i].session_id \notin {NoSessionId, injected.sessionId}

----
\* POST /api/cleanup/purge

\* the tables the purge works on
Tables ==
    [pending_messages |-> pending, user_prompts |-> userPrompts, memories |-> memories,
     observations |-> observations, sessions |-> sessions, summaries |-> summaries,
     vectors |-> vectors, dead_letters |-> deadLetters,
     processed_events |-> processedEvents, sync_runs |-> syncRuns,
     sync_cursor |-> syncCursor, sync_hashes |-> syncHashes]

\* the statements of the purge, in the order they run (memory_index, the full-text
\* index of the observations, has no rows of its own here)
PurgeStatements(project) ==
    IF project # NoProject
    THEN <<"pending_messages", "user_prompts", "memories", "observations", "sessions",
           "sync_runs">>
    ELSE <<"memories", "observations", "sessions", "user_prompts", "summaries", "vectors",
           "pending_messages", "dead_letters", "processed_events", "sync_state",
           "sync_runs">>

\* SELECT session_id FROM sessions WHERE project = ? (every session of the model is
\* created for Project); every session when there is no project
SessionsOfProject(db, project) ==
    {s \in Sessions : db.sessions[s].present /\ project \in {NoProject, Project}}

\* the observations DELETE FROM observations [WHERE project = ?] takes
ObservationsOfProject(db, project) ==
    {o \in db.observations : project = NoProject \/ ProjectOf(o) = project}

\* foreign_keys = ON: a DELETE fails when a row it takes is referenced by a row that
\* stays: vectors reference observations(id); user_prompts, observations and summaries
\* reference sessions(session_id)
ForeignKeyFails(db, table, project) ==
    CASE table = "observations" ->
            \E o \in ObservationsOfProject(db, project) : o.id \in db.vectors
      [] table = "sessions" ->
            \E s \in SessionsOfProject(db, project) :
               \/ \E p \in db.user_prompts : p.session_id = s
               \/ \E o \in db.observations : o.session_id = s
               \/ s \in db.summaries
      [] OTHER -> FALSE

\* one DELETE statement of the purge
DeleteFrom(db, table, project) ==
    CASE table = "pending_messages" ->
            [db EXCEPT !.pending_messages =
                {m \in @ : project # NoProject /\
                           m.entity_id \notin SessionsOfProject(db, project)}]
      [] table = "user_prompts" ->
            [db EXCEPT !.user_prompts =
                {p \in @ : project # NoProject /\
                           p.session_id \notin SessionsOfProject(db, project)}]
      [] table = "memories" ->
            [db EXCEPT !.memories = {m \in @ : project # NoProject /\ m.project # project}]
      [] table = "observations" ->
            [db EXCEPT !.observations = @ \ ObservationsOfProject(db, project)]
      [] table = "sessions" ->
            [db EXCEPT !.sessions =
                [s \in Sessions |-> IF s \in SessionsOfProject(db, project)
                                    THEN NoSession ELSE @[s]]]
      [] table = "summaries" -> [db EXCEPT !.summaries = {}]
      [] table = "vectors" -> [db EXCEPT !.vectors = {}]
      [] table = "dead_letters" -> [db EXCEPT !.dead_letters = {}]
      [] table = "processed_events" -> [db EXCEPT !.processed_events = {}]
      [] table = "sync_state" ->
            [db EXCEPT !.sync_cursor = [scope \in Scopes |-> 0], !.sync_hashes = {}]
      [] OTHER ->
            [db EXCEPT !.sync_runs = {r \in @ : project # NoProject /\ r.project # project}]

RECURSIVE RunStatements(_, _, _)
\* the statements run one after the other, each committed on its own; the first that
\* throws ends the purge (the catch answers 500) and what ran before stays
RunStatements(db, statements, project) ==
    IF statements = <<>> THEN [db |-> db, ok |-> TRUE]
    ELSE IF ForeignKeyFails(db, Head(statements), project) THEN [db |-> db, ok |-> FALSE]
    ELSE RunStatements(DeleteFrom(db, Head(statements), project), Tail(statements), project)

\* the rows of the purged scope (the project's, or all) in the tables of messages,
\* prompts, vectors, memories, observations, summaries, sessions and sync runs
RowsOfScope(db, project) ==
    LET all == project \in {NoProject, Project}
    IN {<<"pending_messages", m.id>> : m \in {x \in db.pending_messages : all}}
       \cup {<<"user_prompts", p.id>> : p \in {x \in db.user_prompts : all}}
       \cup {<<"vectors", v>> : v \in {x \in db.vectors : all}}
       \cup {<<"memories", m.id>> :
                m \in {x \in db.memories : project = NoProject \/ x.project = project}}
       \cup {<<"observations", o.id>> : o \in ObservationsOfProject(db, project)}
       \cup {<<"summaries", s>> : s \in {x \in db.summaries : all}}
       \cup {<<"sessions", s>> : s \in SessionsOfProject(db, project)}
       \cup {<<"sync_runs", r.id>> :
                r \in {x \in db.sync_runs : project = NoProject \/ x.project = project}}

\* POST /api/cleanup/purge with confirm set
Purge(project, confirm) ==
    /\ confirm
    /\ purged.n < MaxPurges
    /\ LET run == RunStatements(Tables, PurgeStatements(project), project)
       IN /\ pending' = run.db.pending_messages
          /\ userPrompts' = run.db.user_prompts
          /\ memories' = run.db.memories
          /\ observations' = run.db.observations
          /\ sessions' = run.db.sessions
          /\ summaries' = run.db.summaries
          /\ vectors' = run.db.vectors
          /\ deadLetters' = run.db.dead_letters
          /\ processedEvents' = run.db.processed_events
          /\ syncRuns' = run.db.sync_runs
          /\ syncCursor' = run.db.sync_cursor
          /\ syncHashes' = run.db.sync_hashes
          /\ purged' = [n |-> purged.n + 1, project |-> project, ok |-> run.ok,
                        left |-> RowsOfScope(run.db, project)]
    /\ UNCHANGED <<cfgMaxRetries, nextPendingId, isProcessing, batch, processedCount,
                   failedCount, failures, delivered, marked, firstInsert, effects,
                   vectorService, restarts, embedLog, deadLetteredAt, chromaSync, inFlight,
                   chroma, replay, syncRejected, lastDelete, upserted, syncDeadLettered,
                   replayOutcome, privacyVars, sseVars, searchVars, memClock, injected,
                   startVars, lifeVars>>

PurgeNext ==
    \/ IngestRequest
    \/ PollStart
    \/ ProcessNext
    \/ \E s \in Sessions : InitSession(s)
    \/ \E s \in Sessions, st \in RequestStatuses : CompleteSession(s, st)
    \/ Tick
    \/ \E project \in {NoProject, Project}, confirm \in BOOLEAN : Purge(project, confirm)

SpecPurge == InitLive /\ [][PurgeNext]_vars

\* C29: a confirmed purge answers success (no statement of it fails on a foreign
\* key) and leaves no row of its scope in the tables of messages, prompts, vectors,
\* memories, observations, summaries, sessions and sync runs
C29_PurgeLeavesNothing ==
    purged.n > 0 => (purged.ok /\ purged.left = {})

----
\* DatabaseManager: getDatabase and runMigrations

\* the migration list of this build
MIGRATIONS ==
    <<"001_init", "002_fts_index", "003_vectors", "004_dead_letters",
      "005_pending_messages", "006_reliability_and_sync_state">>

\* the lists of the builds that open the store: this one, the one before
\* 006_reliability_and_sync_state, and two with a migration this one does not have
Builds ==
    {MIGRATIONS,
     SubSeq(MIGRATIONS, 1, 5),
     MIGRATIONS \o <<"007_next">>,
     SubSeq(MIGRATIONS, 1, 5) \o <<"007_next">>}

Names(migrations) == {migrations[i] : i \in 1..Len(migrations)}

\* the migrations of the list the loop of runMigrations has still to apply
Unapplied(migrations) ==
    SelectSeq(migrations, LAMBDA name : name \notin schemaMigrations)

\* getDatabase of a process that has no db yet: the file is opened, this.db is set,
\* runMigrations reads the names applied
GetDatabase(migrations) ==
    /\ database.phase = "closed"
    /\ starts < MaxStarts
    /\ starts' = starts + 1
    /\ database' = [phase |-> "migrating", migrations |-> migrations,
                    missing |-> (schemaMigrations \ Names(migrations) # {}),
                    appliedNow |-> {}]
    /\ UNCHANGED <<ingestVars, embedVars, privacyVars, syncVars, sseVars, searchVars,
                   contextVars, purgeVars, lifeVars, schemaMigrations>>

\* runMigrations: applyMigration (one transaction) for the next migration of the list
\* that is not applied
ApplyMigration ==
    /\ database.phase = "migrating"
    /\ Unapplied(database.migrations) # <<>>
    /\ schemaMigrations' = schemaMigrations \cup {Head(Unapplied(database.migrations))}
    /\ database' = [database EXCEPT
                       !.appliedNow = @ \cup {Head(Unapplied(database.migrations))}]
    /\ UNCHANGED <<ingestVars, embedVars, privacyVars, syncVars, sseVars, searchVars,
                   contextVars, purgeVars, lifeVars, starts>>

\* the loop of runMigrations is through: getDatabase returns the db
FinishMigrations ==
    /\ database.phase = "migrating"
    /\ Unapplied(database.migrations) = <<>>
    /\ database' = [database EXCEPT !.phase = "open"]
    /\ UNCHANGED <<ingestVars, embedVars, privacyVars, syncVars, sseVars, searchVars,
                   contextVars, purgeVars, lifeVars, schemaMigrations, starts>>

\* the process ends (close, or killed between two migrations)
ProcessExit ==
    /\ database.phase # "closed"
    /\ database' = Closed
    /\ UNCHANGED <<ingestVars, embedVars, privacyVars, syncVars, sseVars, searchVars,
                   contextVars, purgeVars, lifeVars, schemaMigrations, starts>>

StartNext ==
    \/ \E migrations \in Builds : GetDatabase(migrations)
    \/ ApplyMigration
    \/ FinishMigrations
    \/ ProcessExit

SpecStart == InitLive /\ [][StartNext]_vars

\* C30: a start of this build that finds in schema_migrations a name its list does not
\* have applies no migration and does not open the store
C30_RefusesUnknownMigration ==
    (database.migrations = MIGRATIONS /\ database.missing) =>
        (database.appliedNow = {} /\ database.phase # "open")

----
\* The worker's start and shutdownWorker

\* the end of the worker's start: chromaSync.startPeriodicSync, the handlers,
\* sessionQueueProcessor.start (each a no-op when its interval is set)
StartLoops ==
    /\ database.phase = "open"
    /\ ~workerDown
    /\ ~pollInterval
    /\ pollInterval' = TRUE
    /\ syncInterval' = TRUE
    /\ UNCHANGED <<ingestVars, embedVars, privacyVars, syncVars, sseVars, searchVars,
                   contextVars, purgeVars, startVars, workerDown, gracefulShutdown, exited,
                   signals>>

\* shutdownWorker, the handler of SIGINT and SIGTERM: stop clears the poll interval,
\* stopPeriodicSync the sync interval, closeAll the clients; nothing waits for a batch
\* in progress, nothing closes the store, nothing exits the process
ShutdownWorker ==
    /\ pollInterval' = FALSE
    /\ syncInterval' = FALSE
    /\ sseBroadcaster' = CloseAll(sseBroadcaster)
    /\ workerDown' = TRUE
    /\ UNCHANGED <<ingestVars, embedVars, privacyVars, syncVars, clientCount, received,
                   sendFailed, lastBroadcast, searchVars, contextVars, purgeVars, startVars,
                   gracefulShutdown, exited, signals>>

ShutdownNext ==
    \/ GetDatabase(MIGRATIONS)
    \/ ApplyMigration
    \/ FinishMigrations
    \/ StartLoops
    \/ database.phase = "open" /\ IngestRequest
    \/ database.phase = "open" /\ \E s \in Sessions : InitSession(s)
    \/ pollInterval /\ PollStart
    \/ ProcessNext
    \/ Tick
    \/ ShutdownWorker

SpecShutdown == InitLive /\ [][ShutdownNext]_vars

\* C31: once shutdownWorker has run the store is closed and no batch of the poll loop
\* is in progress (the loops are stopped before the store is closed, nothing of a loop
\* uses the store afterwards)
C31_LoopsStoppedThenStoreClosed ==
    workerDown => (database.phase = "closed" /\ ~isProcessing)

----
\* GracefulShutdown and setupProcessShutdownHandlers

MaxHooks == 2
MaxSignals == 2
HookNames == {"h1", "h2"}
Priorities == {1, 2}
ProcessSignals == {"SIGTERM", "SIGINT", "uncaughtException"}

\* registerHook: push, then sort by priority (the sort is stable)
RegisterHook(gs, hook) ==
    LET before == SelectSeq(gs.hooks, LAMBDA h : h.priority <= hook.priority)
        after == SelectSeq(gs.hooks, LAMBDA h : h.priority > hook.priority)
    IN [gs EXCEPT !.hooks = before \o <<hook>> \o after]

\* the loop of shutdown from hook i on: a handler that returns no promise is done at
\* once, the loop waits at the first one that returns a promise; after the last hook
\* the phase is stopped
RECURSIVE RunHooks(_, _)
RunHooks(gs, i) ==
    IF i > Len(gs.hooks)
    THEN [gs EXCEPT !.phase = "stopped", !.running = 0]
    ELSE IF gs.hooks[i].async
    THEN [gs EXCEPT !.running = i]
    ELSE RunHooks([gs EXCEPT !.ran = Append(@, gs.hooks[i].name)], i + 1)

\* shutdown(reason) up to its first await, or to its end
Shutdown(gs) ==
    IF gs.isShuttingDown THEN gs
    ELSE RunHooks([gs EXCEPT !.isShuttingDown = TRUE, !.phase = "draining"], 1)

\* the promise of a shutdown call is settled: the call returned at its guard, or its
\* loop is over
ShutdownReturned(before, after) == before.isShuttingDown \/ after.phase = "stopped"

\* process.exit in the then of the signal's handler
ExitCode(signal) == IF signal = "uncaughtException" THEN "1" ELSE "0"

LifeUnchanged ==
    UNCHANGED <<ingestVars, embedVars, privacyVars, syncVars, sseVars, searchVars,
                contextVars, purgeVars, startVars, pollInterval, syncInterval, workerDown>>

\* gracefulShutdown.registerHook(hook)
RegisterHookCall(name, priority, async) ==
    /\ exited = "no"
    /\ Len(gracefulShutdown.hooks) < MaxHooks
    /\ \A i \in 1..Len(gracefulShutdown.hooks) : gracefulShutdown.hooks[i].name # name
    /\ gracefulShutdown' =
          RegisterHook(gracefulShutdown,
                       [name |-> name, priority |-> priority, async |-> async])
    /\ UNCHANGED <<exited, signals>>
    /\ LifeUnchanged

\* the process gets SIGTERM or SIGINT, or an exception is uncaught:
\* shutdown(reason).then(() => process.exit(code))
Signal(signal) ==
    /\ exited = "no"
    /\ signals < MaxSignals
    /\ signals' = signals + 1
    /\ gracefulShutdown' = Shutdown(gracefulShutdown)
    /\ exited' = IF ShutdownReturned(gracefulShutdown, gracefulShutdown')
                 THEN ExitCode(signal) ELSE exited
    /\ LifeUnchanged

\* the promise of the hook the loop waits for settles (a rejection is caught and
\* logged); the loop goes on, and at its end the first signal's then exits
HookDone ==
    /\ exited = "no"
    /\ gracefulShutdown.running > 0
    /\ gracefulShutdown' =
          RunHooks([gracefulShutdown EXCEPT
                       !.ran = Append(@, gracefulShutdown.hooks[gracefulShutdown.running].name)],
                   gracefulShutdown.running + 1)
    /\ exited' = IF gracefulShutdown'.phase = "stopped" THEN "0" ELSE exited
    /\ UNCHANGED signals
    /\ LifeUnchanged

\* hooks are registered before the shutdown begins
SignalNext ==
    \/ /\ gracefulShutdown.phase = "init"
       /\ \E name \in HookNames, priority \in Priorities, async \in BOOLEAN :
             RegisterHookCall(name, priority, async)
    \/ \E signal \in ProcessSignals : Signal(signal)
    \/ HookDone

SpecSignals == InitLive /\ [][SignalNext]_vars

RegisteredHookNames == [i \in 1..Len(gracefulShutdown.hooks) |-> gracefulShutdown.hooks[i].name]

\* C40: the process has exited only when every registered hook has run to its end,
\* once each, in the order of the priorities, a second signal during the shutdown
\* included
C40_ExitAfterEveryHook ==
    exited # "no" => gracefulShutdown.ran = RegisteredHookNames

====
